---- MODULE Spec2Model ----
(***************************************************************************)
(* Profit-for-Shopify: the cost ledger (MarketingCost / Integration        *)
(* tables), the historical ad-spend syncs that reconcile into it, and the  *)
(* pure profit / trend / fixed-cost arithmetic of the dashboard.           *)
(*                                                                         *)
(* The specifications share the variables:                                 *)
(*   Spec      the ledger state machine (syncs, Sync Now, costs page,      *)
(*             OAuth connects, the clock);                                 *)
(*   SpecCalc  the pure functions and the dashboard report, applied to     *)
(*             inputs drawn from bounded sets;                             *)
(*   SpecLoad  the reconciliation of a provider response, a sync run      *)
(*             twice, the ranges of a dashboard load and its manual      *)
(*             costs, applied to inputs drawn from bounded sets;         *)
(*   SpecRun   the syncs, the dashboard load and Sync Now against one      *)
(*             Integration row in any state the table allows;              *)
(*   SpecRace  two historical sync invocations of one shop and platform    *)
(*             whose steps interleave.                                     *)
(*                                                                         *)
(* Numbers.  JavaScript doubles are modelled as exact rationals            *)
(* [n |-> numerator, d |-> denominator], normalised (d > 0, gcd 1);        *)
(* d = 0 stands for the non-finite doubles (+Infinity, -Infinity, NaN for  *)
(* n = 1, -1, 0).  Rounding of doubles is not modelled.                    *)
(*                                                                         *)
(* Time.  An instant is an integer number of ticks since the epoch (UTC);  *)
(* a day has TicksPerDay ticks; tick 0 of a day is 00:00:00.000 and the    *)
(* last tick of a day is 23:59:59.999.                                     *)
(***************************************************************************)
EXTENDS Integers, Sequences, FiniteSets, Bags, TLC

VARIABLES
    now,            \* the wall clock (Date.now()), in ticks
    tzOffset,       \* the server's local-time offset from UTC, in ticks
    adPlatform,     \* the ad platform whose ledger the behaviour follows
    marketingCost,  \* the MarketingCost table: a bag of rows
    integration,    \* the Integration table: [shop, platform] -> row or NoRow
    nextToken,      \* the next access token the credential provider issues
    sync,           \* the running historical sync invocation (its locals)
    hist,           \* history: the days the last completed sync pass reconciled
    call            \* SpecCalc, SpecLoad: the last call and its result

vars == <<now, tzOffset, adPlatform, marketingCost, integration, nextToken, sync, hist, call>>

ledgerVars == <<now, tzOffset, adPlatform, marketingCost, integration, nextToken, sync, hist>>

(***************************************************************************)
(* Bounds of the model.                                                    *)
(***************************************************************************)
MaxDay == 1          \* calendar days 0..MaxDay are reported by providers
MaxTicks == 1        \* the clock advances at most this many ticks
MaxRows == 2         \* the MarketingCost table holds at most this many rows
MaxInsights == 2     \* a provider response carries at most this many rows
MaxToken == 2        \* at most this many access tokens are ever issued
MaxFixed == 2        \* SpecCalc: a FixedCost table holds at most this many rows

\* a tick is an hour; of a day, tick 0 is 00:00:00.000 and tick TicksPerDay - 1
\* is 23:59:59.999
TicksPerDay == 24

(***************************************************************************)
(* Exact rational arithmetic standing in for JavaScript doubles.           *)
(***************************************************************************)
Abs(x) == IF x < 0 THEN -x ELSE x

Sgn(x) == IF x < 0 THEN -1 ELSE IF x > 0 THEN 1 ELSE 0

RECURSIVE GCD(_, _)
GCD(a, b) == IF b = 0 THEN a ELSE GCD(b, a % b)

Q(n, d) ==
    IF d = 0 THEN [n |-> Sgn(n), d |-> 0]
    ELSE LET g == GCD(Abs(n), Abs(d))
         IN  [n |-> Sgn(d) * (n \div g), d |-> Abs(d) \div g]

R(x) == [n |-> x, d |-> 1]

IsFinite(a) == a.d # 0

IsNaN(a) == a.d = 0 /\ a.n = 0

RAdd(a, b) ==
    IF IsFinite(a) /\ IsFinite(b) THEN Q(a.n * b.d + b.n * a.d, a.d * b.d)
    ELSE IF IsNaN(a) \/ IsNaN(b) THEN Q(0, 0)
    ELSE IF ~IsFinite(a) /\ ~IsFinite(b) THEN (IF a.n = b.n THEN a ELSE Q(0, 0))
    ELSE IF IsFinite(a) THEN b ELSE a

RNeg(a) == [n |-> -a.n, d |-> a.d]

RSub(a, b) == RAdd(a, RNeg(b))

RMul(a, b) ==
    IF IsFinite(a) /\ IsFinite(b) THEN Q(a.n * b.n, a.d * b.d)
    ELSE Q(Sgn(a.n) * Sgn(b.n), 0)

RDiv(a, b) ==
    IF IsFinite(a) /\ IsFinite(b) THEN Q(a.n * b.d, a.d * b.n)
    ELSE IF IsFinite(b) THEN Q(Sgn(a.n) * (IF b.n < 0 THEN -1 ELSE 1), 0)
    ELSE IF IsFinite(a) /\ ~IsNaN(b) THEN R(0)
    ELSE Q(0, 0)

\* a > b as doubles compare: false whenever a NaN is involved
RGt(a, b) ==
    IF IsNaN(a) \/ IsNaN(b) THEN FALSE
    ELSE IF IsFinite(a) /\ IsFinite(b) THEN a.n * b.d > b.n * a.d
    ELSE IF ~IsFinite(a) /\ ~IsFinite(b) THEN a.n > b.n
    ELSE IF IsFinite(a) THEN b.n < 0 ELSE a.n > 0

RZero == R(0)

\* Math.ceil(x / d) for integers x and d > 0
CeilDiv(x, d) == -((-x) \div d)

RECURSIVE SeqSum(_)
SeqSum(s) == IF s = <<>> THEN RZero ELSE RAdd(s[1], SeqSum(Tail(s)))

(***************************************************************************)
(* Calendar helpers.                                                       *)
(***************************************************************************)
Days == 0..MaxDay

DayStart(d) == d * TicksPerDay

DayEnd(d) == d * TicksPerDay + (TicksPerDay - 1)

\* the UTC calendar day an instant falls on (toISOString().split('T')[0])
UTCDay(t) == t \div TicksPerDay

\* Date.prototype.setHours(0, 0, 0, 0): midnight of the server-local day of t
SetHoursStart(t, off) == ((t + off) \div TicksPerDay) * TicksPerDay - off

\* Date.prototype.setHours(23, 59, 59, 999): last instant of that local day
SetHoursEnd(t, off) == SetHoursStart(t, off) + (TicksPerDay - 1)

\* new Date("YYYY-MM-DD"): a date-only string parses as UTC midnight
ParseDate(d) == DayStart(d)

\* the civil calendar behind Date: day number 0 is 1 January of EpochYear;
\* months are numbered 0..11 as JavaScript numbers them
EpochYear == 2023

IsLeapYear(y) == (y % 4 = 0 /\ y % 100 # 0) \/ y % 400 = 0

MonthLength(y, m) ==
    IF m = 1 THEN (IF IsLeapYear(y) THEN 29 ELSE 28)
    ELSE IF m \in {3, 5, 8, 10} THEN 30 ELSE 31

YearLength(y) == IF IsLeapYear(y) THEN 366 ELSE 365

RECURSIVE DaysBeforeYear(_)
DaysBeforeYear(y) ==
    IF y = EpochYear THEN 0
    ELSE IF y > EpochYear THEN DaysBeforeYear(y - 1) + YearLength(y - 1)
    ELSE DaysBeforeYear(y + 1) - YearLength(y)

RECURSIVE DaysBeforeMonth(_, _)
DaysBeforeMonth(y, m) ==
    IF m = 0 THEN 0 ELSE DaysBeforeMonth(y, m - 1) + MonthLength(y, m - 1)

\* Date.UTC(y, m, d) in days: a month outside 0..11 carries into the year, a
\* day outside the month counts on from the first of the month
MakeDay(y, m, d) ==
    LET yy == y + (m \div 12)
        mm == m % 12
    IN  DaysBeforeYear(yy) + DaysBeforeMonth(yy, mm) + (d - 1)

RECURSIVE YearOf(_, _)
YearOf(n, y) ==
    IF n < DaysBeforeYear(y) THEN YearOf(n, y - 1)
    ELSE IF n >= DaysBeforeYear(y + 1) THEN YearOf(n, y + 1)
    ELSE y

RECURSIVE MonthOf(_, _, _)
MonthOf(n, y, m) ==
    IF n < MakeDay(y, m + 1, 1) THEN m ELSE MonthOf(n, y, m + 1)

\* getUTCFullYear / getUTCMonth / getUTCDate of a day number
CivilOf(n) ==
    LET y == YearOf(n, EpochYear)
        m == MonthOf(n, y, 0)
    IN  [year |-> y, month |-> m, day |-> n - MakeDay(y, m, 1) + 1]

(***************************************************************************)
(* Profit calculator (profit-calculator.ts).                               *)
(***************************************************************************)
Hundred == R(100)

Pct(x, total) == RMul(RDiv(x, total), Hundred)

\* variant: the fee is read from the costs' transactionFees field
calculateProfitsStoredFees(sales, costs, transactionFeePercent) ==
    LET totalSales         == sales.totalSales
        variableCosts      == RAdd(RAdd(costs.shippingCosts, costs.cogs), costs.transactionFees)
        grossProfit        == RSub(totalSales, variableCosts)
        contributionProfit == RSub(grossProfit, costs.marketingCosts)
        netProfit          == RSub(contributionProfit, costs.fixedCosts)
        Margin(x)          == IF RGt(totalSales, RZero) THEN Pct(x, totalSales) ELSE RZero
    IN  [ totalSales            |-> totalSales,
          newCustomerRevenue    |-> sales.newCustomerRevenue,
          returnCustomerRevenue |-> sales.returnCustomerRevenue,
          variableCosts         |-> variableCosts,
          marketingCosts        |-> costs.marketingCosts,
          fixedCosts            |-> costs.fixedCosts,
          grossProfit           |-> grossProfit,
          contributionProfit    |-> contributionProfit,
          netProfit             |-> netProfit,
          grossMargin           |-> Margin(grossProfit),
          contributionMargin    |-> Margin(contributionProfit),
          netMargin             |-> Margin(netProfit) ]

\* calculateProfits(sales, costs, transactionFeePercent)
calculateProfits(sales, costs, transactionFeePercent) ==
    LET totalSales         == sales.totalSales
        transactionFees    == RDiv(RMul(totalSales, transactionFeePercent), Hundred)
        variableCosts      == RAdd(RAdd(costs.shippingCosts, costs.cogs), transactionFees)
        grossProfit        == RSub(totalSales, variableCosts)
        contributionProfit == RSub(RSub(totalSales, variableCosts), costs.marketingCosts)
        netProfit          == RSub(RSub(RSub(totalSales, variableCosts), costs.marketingCosts),
                                   costs.fixedCosts)
    IN  [ totalSales            |-> totalSales,
          newCustomerRevenue    |-> sales.newCustomerRevenue,
          returnCustomerRevenue |-> sales.returnCustomerRevenue,
          variableCosts         |-> variableCosts,
          marketingCosts        |-> costs.marketingCosts,
          fixedCosts            |-> costs.fixedCosts,
          grossProfit           |-> grossProfit,
          contributionProfit    |-> contributionProfit,
          netProfit             |-> netProfit,
          grossMargin           |-> IF RGt(totalSales, RZero)
                                    THEN Pct(grossProfit, totalSales) ELSE RZero,
          contributionMargin    |-> IF RGt(totalSales, RZero)
                                    THEN Pct(contributionProfit, totalSales) ELSE RZero,
          netMargin             |-> IF RGt(totalSales, RZero)
                                    THEN Pct(netProfit, totalSales) ELSE RZero ]

\* variant: the change is taken relative to the current value
calculateTrendOverCurrent(current, previous) ==
    IF previous = RZero THEN RZero
    ELSE RMul(RDiv(RSub(current, previous), current), Hundred)

\* calculateTrend(current, previous)
calculateTrend(current, previous) ==
    IF previous = RZero THEN RZero
    ELSE RMul(RDiv(RSub(current, previous), previous), Hundred)

(***************************************************************************)
(* Fixed costs (database.ts).  A FixedCost row is                          *)
(* [shop, amount, startDate, endDate, recurring]; endDate is optional.     *)
(***************************************************************************)
Null == "null"

\* an optional value: None, or Some(x)
None == {}

Some(x) == {x}

The(o) == CHOOSE x \in o : TRUE

daysInMonth == 30

\* the `where` of prisma.fixedCost.findMany in getFixedCosts
FixedCostSelected(cost, shop, startDate, endDate) ==
    /\ cost.shop = shop
    /\ \/ /\ cost.recurring
          /\ cost.startDate <= endDate
          /\ (cost.endDate = None \/ \E e \in cost.endDate : e >= startDate)
       \/ /\ ~cost.recurring
          /\ cost.startDate >= startDate
          /\ cost.startDate <= endDate

\* the loop body of getFixedCosts: what one selected row adds to the total
FixedCostShare(cost, days) ==
    IF cost.recurring THEN RDiv(RMul(R(cost.amount), R(days)), R(daysInMonth))
    ELSE R(cost.amount)

RECURSIVE FixedCostTotal(_, _, _, _, _)
FixedCostTotal(table, shop, startDate, endDate, days) ==
    IF table = <<>> THEN RZero
    ELSE RAdd(IF FixedCostSelected(table[1], shop, startDate, endDate)
              THEN FixedCostShare(table[1], days) ELSE RZero,
              FixedCostTotal(Tail(table), shop, startDate, endDate, days))

\* variant: the range's days are rounded down
getFixedCostsFloor(table, shop, startDate, endDate) ==
    LET days == (endDate - startDate) \div TicksPerDay
    IN  FixedCostTotal(table, shop, startDate, endDate, days)

\* getFixedCosts(shop, startDate, endDate) over the FixedCost table
getFixedCosts(table, shop, startDate, endDate) ==
    LET days == CeilDiv(endDate - startDate, TicksPerDay)
    IN  FixedCostTotal(table, shop, startDate, endDate, days)

(***************************************************************************)
(* The dashboard loader's report (app._index loader).  `cur` and `prev`    *)
(* are what the revenue source and the ledger return for the current and   *)
(* the previous period; `tryFails` says which call of the try block        *)
(* throws and `fallbackFails` whether the ledger reads of the fallback     *)
(* throw too.                                                              *)
(***************************************************************************)
PeriodCosts(p, withShopify) ==
    [ shippingCosts   |-> IF withShopify THEN RAdd(p.totalShipping, p.manualShipping)
                          ELSE p.manualShipping,
      cogs            |-> IF withShopify THEN RAdd(p.totalCogs, p.manualCogs)
                          ELSE p.manualCogs,
      transactionFees |-> RZero,
      marketingCosts  |-> p.marketingCosts,
      fixedCosts      |-> p.fixedCosts ]

PeriodSales(p) ==
    [ totalSales            |-> p.totalSales,
      newCustomerRevenue    |-> p.newCustomerRevenue,
      returnCustomerRevenue |-> p.returnCustomerRevenue ]

MetricNames ==
    {"grossProfit", "contributionProfit", "netProfit", "totalSales", "newCustomerRevenue",
     "returnCustomerRevenue", "variableCosts", "marketingCosts", "fixedCosts"}

MetricsOf(m) == [k \in MetricNames |-> m[k]]

ZeroMetrics == [k \in MetricNames |-> RZero]

\* the try block of the loader, when nothing throws
LoaderMainReport(cur, prev, fee) ==
    LET currentMetrics  == calculateProfits(PeriodSales(cur), PeriodCosts(cur, TRUE), fee)
        previousMetrics == calculateProfits(PeriodSales(prev), PeriodCosts(prev, TRUE), fee)
        totalSales      == currentMetrics.totalSales
        hasSales        == RGt(totalSales, RZero)
        Share(x)        == IF hasSales THEN Pct(x, totalSales) ELSE RZero
    IN  [ metrics |-> MetricsOf(currentMetrics),
          margins |->
            [ grossProfit           |-> Share(currentMetrics.grossProfit),
              contributionProfit    |-> Share(currentMetrics.contributionProfit),
              netProfit             |-> Share(currentMetrics.netProfit),
              variableCosts         |-> Share(currentMetrics.variableCosts),
              marketingCosts        |-> Share(currentMetrics.marketingCosts),
              fixedCosts            |-> Share(currentMetrics.fixedCosts),
              totalSales            |-> IF hasSales THEN Hundred ELSE RZero,
              newCustomerRevenue    |->
                  IF RGt(currentMetrics.newCustomerRevenue, RZero)
                  THEN Pct(currentMetrics.variableCosts, currentMetrics.newCustomerRevenue)
                  ELSE RZero,
              returnCustomerRevenue |->
                  IF RGt(currentMetrics.returnCustomerRevenue, RZero)
                  THEN Pct(currentMetrics.variableCosts, currentMetrics.returnCustomerRevenue)
                  ELSE RZero ],
          distributions |->
            [ grossProfit           |-> Share(currentMetrics.grossProfit),
              contributionProfit    |-> Share(currentMetrics.contributionProfit),
              netProfit             |-> Share(currentMetrics.netProfit),
              variableCosts         |-> Share(currentMetrics.variableCosts),
              marketingCosts        |-> Share(currentMetrics.marketingCosts),
              fixedCosts            |-> Share(currentMetrics.fixedCosts),
              totalSales            |-> IF hasSales THEN Hundred ELSE RZero,
              newCustomerRevenue    |-> Share(currentMetrics.newCustomerRevenue),
              returnCustomerRevenue |-> Share(currentMetrics.returnCustomerRevenue) ],
          trends |-> [k \in MetricNames |->
                        calculateTrend(currentMetrics[k], previousMetrics[k])],
          error |-> FALSE ]

\* variant: the catch block does not read the ledger
LoaderFallbackSkipsLedger(cur, fee) ==
    [ metrics       |-> ZeroMetrics,
      margins       |-> ZeroMetrics,
      distributions |-> ZeroMetrics,
      trends        |-> ZeroMetrics,
      error         |-> TRUE ]

\* the cost-only fallback of the loader's catch block
LoaderFallbackReport(cur, fee) ==
    LET salesData  == [ totalSales |-> RZero, newCustomerRevenue |-> RZero,
                        returnCustomerRevenue |-> RZero ]
        metrics    == calculateProfits(salesData, PeriodCosts(cur, FALSE), fee)
        totalSales == IF metrics.totalSales = RZero THEN Q(1, 1000) ELSE metrics.totalSales
        Share(x)   == Pct(x, totalSales)
        shares     == [ grossProfit           |-> Share(metrics.grossProfit),
                        contributionProfit    |-> Share(metrics.contributionProfit),
                        netProfit             |-> Share(metrics.netProfit),
                        variableCosts         |-> Share(metrics.variableCosts),
                        marketingCosts        |-> Share(metrics.marketingCosts),
                        fixedCosts            |-> Share(metrics.fixedCosts),
                        totalSales            |-> Hundred,
                        newCustomerRevenue    |-> RZero,
                        returnCustomerRevenue |-> RZero ]
    IN  [ metrics       |-> MetricsOf(metrics),
          margins       |-> shares,
          distributions |-> shares,
          trends        |-> [k \in MetricNames |-> RZero],
          error         |-> TRUE ]

\* the all-zero report of the inner catch block
LoaderZeroReport ==
    [ metrics       |-> ZeroMetrics,
      margins       |-> ZeroMetrics,
      distributions |-> ZeroMetrics,
      trends        |-> ZeroMetrics,
      error         |-> TRUE ]

\* the report the loader returns
LoaderReport(cur, prev, fee, tryFails, fallbackFails) ==
    IF ~tryFails THEN LoaderMainReport(cur, prev, fee)
    ELSE IF ~fallbackFails THEN LoaderFallbackReport(cur, fee)
    ELSE LoaderZeroReport

(***************************************************************************)
(* Dashboard (app._index.tsx): the metric card's target status.            *)
(***************************************************************************)
PeriodKeys ==
    { "today", "yesterday", "last7days", "last30days", "last60days", "last90days",
      "thisMonth", "lastMonth", "custom" }

\* getCurrentPeriodDays; today is the day number of new Date()
getCurrentPeriodDays(selectedPeriod, today) ==
    LET d == CivilOf(today)
    IN  CASE selectedPeriod = "today"      -> 1
          [] selectedPeriod = "yesterday"  -> 1
          [] selectedPeriod = "last7days"  -> 7
          [] selectedPeriod = "last30days" -> 30
          [] selectedPeriod = "last60days" -> 60
          [] selectedPeriod = "last90days" -> 90
          [] selectedPeriod = "thisMonth"  -> d.day
          [] selectedPeriod = "lastMonth"  -> CivilOf(MakeDay(d.year, d.month, 0)).day
          [] OTHER                         -> 30

\* the >= of doubles: false whenever a NaN is involved
RGe(a, b) == ~IsNaN(a) /\ ~IsNaN(b) /\ ~RGt(b, a)

\* getTargetStatus; target is None (undefined) or Some(number)
getTargetStatus(value, target, currentPeriodDays) ==
    IF target = None \/ The(target) = RZero \/ IsNaN(The(target)) THEN None
    ELSE LET dailyAverage     == RDiv(value, R(currentPeriodDays))
             projectedMonthly == RMul(dailyAverage, R(30))
             percentOfTarget  == RMul(RDiv(projectedMonthly, The(target)), Hundred)
         IN  IF RGe(percentOfTarget, Hundred)
             THEN Some([label |-> "On Target", percent |-> percentOfTarget])
             ELSE IF RGe(percentOfTarget, R(80))
             THEN Some([label |-> "Near Target", percent |-> percentOfTarget])
             ELSE Some([label |-> "Off Target", percent |-> percentOfTarget])

(***************************************************************************)
(* Tables and rows shared by both specifications.                          *)
(***************************************************************************)
Shops == {"s1"}

CalcShops == {"s1", "s2"}

NoRow == [exists |-> FALSE]

Idle == [pc |-> "idle"]

NoCall == [fn |-> "none"]

(***************************************************************************)
(* SpecCalc: the pure functions applied to inputs drawn from small sets.   *)
(* Each behaviour makes one call.                                          *)
(***************************************************************************)
SalesInputs ==
    { [ totalSales |-> R(t), newCustomerRevenue |-> R(n), returnCustomerRevenue |-> R(t - n) ] :
        <<t, n>> \in {<<0, 0>>, <<1000, 0>>, <<1000, 1000>>, <<1000, 400>>, <<200, 200>>} }

CostInputs ==
    [ shippingCosts : {R(0), R(50)}, cogs : {R(0), R(200)}, transactionFees : {R(0), R(7)},
      marketingCosts : {R(0), R(100)}, fixedCosts : {R(0), R(50)} ]

FeeInputs == {R(3), R(0), Q(5, 2)}

TrendInputs == {R(-100), R(0), R(50), R(100), R(150), Q(1, 3)}

FixedRows ==
    [ shop : CalcShops, amount : {300, 45}, recurring : {TRUE},
      startDate : {DayStart(0), DayStart(5), DayStart(12)},
      endDate : {None, Some(DayEnd(3))} ]
    \cup
    [ shop : CalcShops, amount : {300, 45}, recurring : {FALSE},
      startDate : {DayStart(0), DayStart(5), DayStart(12)}, endDate : {None} ]

RECURSIVE SeqsUpTo(_, _)
SeqsUpTo(S, n) ==
    IF n = 0 THEN {<<>>}
    ELSE LET shorter == SeqsUpTo(S, n - 1)
         IN  shorter \cup { Append(q, x) : q \in {r \in shorter : Len(r) = n - 1}, x \in S }

FixedTables == SeqsUpTo(FixedRows, MaxFixed)

\* query ranges [startDate, endDate]: ten whole days, one whole day, the
\* eight days before a period start, thirty whole days
RangeInputs ==
    { <<DayStart(0), DayEnd(9)>>, <<DayStart(5), DayEnd(5)>>,
      <<DayStart(4), DayStart(12)>>, <<DayStart(10), DayEnd(39)>> }

PeriodInputs ==
    { [ totalSales |-> s.totalSales, newCustomerRevenue |-> s.newCustomerRevenue,
        returnCustomerRevenue |-> s.returnCustomerRevenue,
        totalShipping |-> ship, totalCogs |-> RZero,
        manualShipping |-> RZero, manualCogs |-> mc,
        marketingCosts |-> mk, fixedCosts |-> fx ] :
        s \in {x \in SalesInputs : x.totalSales \in {R(0), R(1000)}},
        ship \in {R(0), R(50)}, mc \in {R(0), R(200)},
        mk \in {R(0), R(100)}, fx \in {R(0), R(50)} }

CallCalculateProfits ==
    /\ call = NoCall
    /\ \E sales \in SalesInputs, costs \in CostInputs, fee \in FeeInputs :
         call' = [ fn |-> "calculateProfits", sales |-> sales, costs |-> costs, fee |-> fee,
                   result |-> calculateProfits(sales, costs, fee) ]
    /\ UNCHANGED ledgerVars

CallCalculateTrend ==
    /\ call = NoCall
    /\ \E current \in TrendInputs, previous \in TrendInputs :
         call' = [ fn |-> "calculateTrend", current |-> current, previous |-> previous,
                   result |-> calculateTrend(current, previous) ]
    /\ UNCHANGED ledgerVars

CallGetFixedCosts ==
    /\ call = NoCall
    /\ \E table \in FixedTables, shop \in CalcShops, range \in RangeInputs :
         call' = [ fn |-> "getFixedCosts", table |-> table, shop |-> shop,
                   startDate |-> range[1], endDate |-> range[2],
                   result |-> getFixedCosts(table, shop, range[1], range[2]) ]
    /\ UNCHANGED ledgerVars

CallLoader ==
    /\ call = NoCall
    /\ \E cur \in PeriodInputs, prev \in PeriodInputs, fee \in {R(3), R(0)},
          tryFails \in BOOLEAN, fallbackFails \in BOOLEAN :
         call' = [ fn |-> "loader", cur |-> cur, tryFails |-> tryFails,
                   fallbackFails |-> fallbackFails,
                   result |-> LoaderReport(cur, prev, fee, tryFails, fallbackFails) ]
    /\ UNCHANGED ledgerVars

(***************************************************************************)
(* The ledger state machine.                                               *)
(*                                                                         *)
(* A MarketingCost row is [shop, platform, amount, date, description].     *)
(* The table has a primary key on id only (migration.sql): a create never  *)
(* fails because of the row's shop, platform or date.  The id (a cuid) is  *)
(* compared by no query except `where: { id }` of update and delete, so    *)
(* rows with equal fields are interchangeable: the table is a bag of rows  *)
(* and a remembered id is a reference to one copy of a row.                *)
(*                                                                         *)
(* An Integration row is [exists, isActive, credentials, lastSync];        *)
(* credentials is NoCredentials (SQL NULL), BadJson (text that JSON.parse  *)
(* rejects) or the parsed blob, tagged json = "ok".                        *)
(*                                                                         *)
(* Scope.  Every query of the syncs fixes the platform, so rows and        *)
(* Integration rows of different platforms never meet: a behaviour follows *)
(* the ledger of one ad platform (adPlatform, chosen by Init).  In Spec    *)
(* one historical sync invocation runs at a time and the other handlers    *)
(* interleave with its steps.  No handler of the repository writes         *)
(* selectedCustomerId, so Init may start from a Google Integration row     *)
(* that carries one (SeededGoogleRow); the row the Google OAuth callback   *)
(* writes has none.  The server's time zone is fixed during a behaviour.   *)
(***************************************************************************)
\* invocations started by the OAuth callbacks; the dashboard loader's
\* background invocation has a slot of its own
Procs == {"p1"}

LoaderProc == "p2"

AllProcs == Procs \cup {LoaderProc}

Kinds == {"facebook", "google"}

IntegrationPlatform(kind) == IF kind = "facebook" THEN "facebook_ads" ELSE "google_ads"

IntegrationKeys == Shops \X {"facebook_ads", "google_ads"}

CostPlatforms == {"facebook", "google"}

NoCredentials == [json |-> "null"]

BadJson == [json |-> "bad"]

NoResult == [returned |-> FALSE]

StartOfTime == DayStart(MaxDay)

ExpiresIn == 1

MicrosPerUnit == 1000000

MaxPages == 20

\* what the ad platforms report
SpendValues == {R(0), R(1), R(2)}

RangeSpendValues == {R(0), R(5)}

CostMicrosValues == {0, 1000000, 2000000}

ManualAmounts == {R(3)}

FacebookInsights == [day : Days, spend : SpendValues]

GoogleResults == [date : Days, costMicros : CostMicrosValues]

FacebookCredentials ==
    [json : {"ok"}, accessToken : {0}, selectedAdAccountId : {Null, "act_1"}]

\* the Integration row a Google connection provisioned with a customer id
SeededGoogleRow ==
    [ exists |-> TRUE, isActive |-> TRUE, lastSync |-> None,
      credentials |-> [ json |-> "ok", accessToken |-> 0, refreshToken |-> "r",
                        expiresAt |-> Some(StartOfTime + 1),
                        selectedCustomerId |-> "cust_1" ] ]

FreshSync(kind, shop) ==
    [ pc |-> "load", kind |-> kind, shop |-> shop, credentials |-> NoCredentials,
      accessToken |-> None, expired |-> FALSE, staleToken |-> None, refreshed |-> "no",
      newExpiresAt |-> None, fetchedWith |-> None, insights |-> <<>>, idx |-> 0,
      existing |-> None, storedCount |-> 0, totalAmount |-> RZero, result |-> NoResult ]

Running(p) == sync[p].pc \notin {"idle", "done", "thrown"}

SyncKey(p) == <<sync[p].shop, IntegrationPlatform(sync[p].kind)>>

\* the locals of a returned invocation go out of scope
Returned(s, result) ==
    [ s EXCEPT !.pc = "done", !.result = result, !.credentials = NoCredentials,
               !.accessToken = None, !.newExpiresAt = None,
               !.insights = <<>>, !.idx = 0, !.existing = None ]

Failure(error) ==
    [returned |-> TRUE, success |-> FALSE, totalAmount |-> RZero, error |-> error]

Success(totalAmount) ==
    [returned |-> TRUE, success |-> TRUE, totalAmount |-> totalAmount, error |-> Null]

\* variant: the catch block stamps lastSync before it returns the failure
CaughtStamped(p) ==
    /\ sync' = [sync EXCEPT ![p] = Returned(@, Failure("exception"))]
    /\ integration' = [integration EXCEPT
                          ![<<sync[p].shop, IntegrationPlatform(sync[p].kind)>>] =
                              IF @.exists THEN [@ EXCEPT !.lastSync = Some(now)] ELSE @]
    /\ UNCHANGED <<now, tzOffset, adPlatform, marketingCost, nextToken, hist, call>>

\* variant: the catch block rethrows
CaughtRethrows(p) ==
    /\ sync' = [sync EXCEPT ![p].pc = "thrown"]
    /\ UNCHANGED <<now, tzOffset, adPlatform, marketingCost, integration, nextToken, hist, call>>

\* an awaited call rejects inside the try block: the catch returns a failure
Caught(p) ==
    /\ sync' = [sync EXCEPT ![p] = Returned(@, Failure("exception"))]
    /\ UNCHANGED <<now, tzOffset, adPlatform, marketingCost, integration, nextToken, hist, call>>

\* an early `return { success: false, ... }`
ReturnFailure(p, s, error) ==
    sync' = [sync EXCEPT ![p] = Returned(s, Failure(error))]

\* variant: the query does not filter on shop and platform
RowsOfAnyOwner(ledger, shop, platform, from, to) ==
    {r \in BagToSet(ledger) : r.date >= from /\ r.date <= to}

\* rows of (shop, platform) dated in [from, to], in a table
RowsOf(ledger, shop, platform, from, to) ==
    {r \in BagToSet(ledger) :
        r.shop = shop /\ r.platform = platform /\ r.date >= from /\ r.date <= to}

\* rows of (shop, platform) dated in [from, to]
RowsIn(shop, platform, from, to) == RowsOf(marketingCost, shop, platform, from, to)

NewRow(shop, platform, amount, date, description) ==
    [ shop |-> shop, platform |-> platform, amount |-> amount, date |-> date,
      description |-> description ]

\* prisma.marketingCost.create, on a table
CreatedIn(ledger, row) == ledger (+) SetToBag({row})

\* prisma.marketingCost.update / upsert of one stored row, on a table
UpdatedIn(ledger, old, new) == (ledger (-) SetToBag({old})) (+) SetToBag({new})

\* costs.reduce((sum, cost) => sum + cost.amount, 0) over rows of a table
RECURSIVE SumOfRows(_, _)
SumOfRows(ledger, rows) ==
    IF rows = {} THEN RZero
    ELSE LET r == CHOOSE x \in rows : TRUE
         IN  RAdd(RMul(R(CopiesIn(r, ledger)), r.amount), SumOfRows(ledger, rows \ {r}))

\* getMarketingCosts(shop, startDate, endDate) read from a table: the range is
\* widened to whole days of the server's time zone, every platform counts
getMarketingCosts(ledger, shop, startDate, endDate, off) ==
    LET normalizedStart == SetHoursStart(startDate, off)
        normalizedEnd   == SetHoursEnd(endDate, off)
    IN  SumOfRows(ledger, {r \in BagToSet(ledger) :
                             /\ r.shop = shop
                             /\ r.date >= normalizedStart /\ r.date <= normalizedEnd})

\* prisma.marketingCost.create
Created(row) == CreatedIn(marketingCost, row)

\* prisma.marketingCost.update / upsert of one stored row
Updated(old, new) == UpdatedIn(marketingCost, old, new)

\* the calendar day, in the server's time zone, an instant falls on
LocalDay(t, off) == (t + off) \div TicksPerDay

\* the day, as a UTC-anchored range, before the shift by the period
WholeDay(n) == [startDate |-> DayStart(n), endDate |-> DayEnd(n)]

\* the switch of getDateRangeForPeriod; local is the day number of the date
\* parts the formatter yields.  setUTCDate and setUTCMonth set one field and
\* let Date.UTC normalise the result
PeriodRange(period, local) ==
    LET c     == CivilOf(local)
        shift(k) == [ startDate |-> DayStart(MakeDay(c.year, c.month, c.day - k)),
                      endDate   |-> DayEnd(local) ]
    IN  CASE period = "today"      -> WholeDay(local)
          [] period = "yesterday"  -> WholeDay(MakeDay(c.year, c.month, c.day - 1))
          [] period = "last7days"  -> shift(7)
          [] period = "last30days" -> shift(30)
          [] period = "last60days" -> shift(60)
          [] period = "last90days" -> shift(90)
          [] period = "thisMonth"  ->
                [ startDate |-> DayStart(MakeDay(c.year, c.month, 1)),
                  endDate   |-> DayEnd(local) ]
          [] period = "lastMonth"  ->
                LET moved == CivilOf(MakeDay(c.year, c.month - 1, c.day))
                    first == CivilOf(MakeDay(c.year, c.month, 1))
                IN  [ startDate |-> DayStart(MakeDay(moved.year, moved.month, 1)),
                      endDate   |-> DayEnd(MakeDay(first.year, first.month, 0)) ]
          [] OTHER                 -> shift(30)

\* variant: the date parts are those of the UTC date of the instant
getDateRangeForPeriodUTC(period, timezone, t) == PeriodRange(period, UTCDay(t))

\* getDateRangeForPeriod(period, timezone) called at instant t; the formatter
\* yields the date parts of t in the time zone
getDateRangeForPeriod(period, timezone, t) == PeriodRange(period, LocalDay(t, timezone))

(***************************************************************************)
(* Callers of the historical syncs: the dashboard loader and the OAuth     *)
(* callbacks start them in the background.                                 *)
(***************************************************************************)
StartSync(p, kind, shop) ==
    /\ ~Running(p)
    /\ sync' = [sync EXCEPT ![p] = FreshSync(kind, shop)]
    /\ UNCHANGED <<now, tzOffset, adPlatform, marketingCost, integration, nextToken, hist, call>>

\* variant: no spend check, every insight is reconciled
NextReported(insights, i) == i

\* index of the first insight at or after i with spend > 0, or Len + 1
RECURSIVE NextPositive(_, _)
NextPositive(insights, i) ==
    IF i > Len(insights) THEN i
    ELSE IF RGt(insights[i].spend, RZero) THEN i
    ELSE NextPositive(insights, i + 1)

\* variant: the lookup does not filter on isActive
NotConnectedIgnoresActive(row) ==
    IF ~row.exists THEN TRUE ELSE row.credentials = NoCredentials

\* findFirst({ shop, platform, isActive: true }) finds nothing, or the row
\* found has no credentials
NotConnected(row) ==
    IF ~row.exists THEN TRUE
    ELSE IF ~row.isActive THEN TRUE
    ELSE row.credentials = NoCredentials

\* syncFacebookHistoricalData / syncGoogleHistoricalData: integration lookup,
\* credential parsing, expiry check, account check
LoadIntegration(p) ==
    /\ sync[p].pc = "load"
    /\ LET s   == sync[p]
           row == integration[SyncKey(p)]
       IN  IF NotConnected(row)
           THEN ReturnFailure(p, s, "not connected")
           ELSE IF row.credentials.json # "ok"
           THEN ReturnFailure(p, s, "exception")
           ELSE IF s.kind = "facebook"
           THEN IF row.credentials.selectedAdAccountId = Null
                THEN ReturnFailure(p, s, "No ad account selected")
                ELSE sync' = [sync EXCEPT ![p] =
                        [s EXCEPT !.pc = "fetch", !.credentials = row.credentials,
                                  !.accessToken = Some(row.credentials.accessToken)]]
           ELSE IF \E e \in row.credentials.expiresAt : now >= e
           THEN sync' = [sync EXCEPT ![p] =
                        [s EXCEPT !.pc = "refresh", !.credentials = row.credentials,
                                  !.accessToken = Some(row.credentials.accessToken),
                                  !.expired = TRUE,
                                  !.staleToken = Some(row.credentials.accessToken)]]
           ELSE IF row.credentials.selectedCustomerId = Null
           THEN ReturnFailure(p, s, "No Google Ads customer selected")
           ELSE sync' = [sync EXCEPT ![p] =
                        [s EXCEPT !.pc = "fetch", !.credentials = row.credentials,
                                  !.accessToken = Some(row.credentials.accessToken)]]
    /\ UNCHANGED <<now, tzOffset, adPlatform, marketingCost, integration, nextToken, hist, call>>

\* variant: a failed refresh is ignored and the sync goes on with the stored token
RefreshFailsIgnored(p) ==
    /\ sync[p].pc = "refresh"
    /\ sync' = [sync EXCEPT ![p] = [@ EXCEPT !.pc = "fetch", !.refreshed = "failed"]]
    /\ UNCHANGED <<now, tzOffset, adPlatform, marketingCost, integration, nextToken, hist, call>>

\* refreshGoogleToken returns null (provider error or rejected request)
RefreshFails(p) ==
    /\ sync[p].pc = "refresh"
    /\ sync' = [sync EXCEPT ![p] =
                  Returned([@ EXCEPT !.refreshed = "failed"],
                           Failure("Failed to refresh Google token"))]
    /\ UNCHANGED <<now, tzOffset, adPlatform, marketingCost, integration, nextToken, hist, call>>

\* refreshGoogleToken returns a new access token
RefreshSucceeds(p) ==
    /\ sync[p].pc = "refresh"
    /\ nextToken <= MaxToken
    /\ sync' = [sync EXCEPT ![p] =
                  [@ EXCEPT !.pc = "persist", !.refreshed = "ok",
                            !.accessToken = Some(nextToken),
                            !.newExpiresAt = Some(now + ExpiresIn)]]
    /\ nextToken' = nextToken + 1
    /\ UNCHANGED <<now, tzOffset, adPlatform, marketingCost, integration, hist, call>>

\* the refreshed credentials are stored, then the customer id is checked
PersistCredentials(p) ==
    /\ sync[p].pc = "persist"
    /\ LET s == sync[p]
           k == SyncKey(p)
       IN  /\ integration' = [integration EXCEPT ![k].credentials =
                                [s.credentials EXCEPT !.accessToken = The(s.accessToken),
                                                      !.expiresAt = s.newExpiresAt]]
           /\ IF s.credentials.selectedCustomerId = Null
              THEN ReturnFailure(p, s, "No Google Ads customer selected")
              ELSE sync' = [sync EXCEPT ![p] = [s EXCEPT !.pc = "fetch"]]
    /\ UNCHANGED <<now, tzOffset, adPlatform, marketingCost, nextToken, hist, call>>

\* an awaited store call or provider request rejects; the catch block returns
AwaitRejects(p) ==
    /\ sync[p].pc \in {"load", "persist", "fetch", "find", "write", "upsert", "finalize"}
    /\ Caught(p)

\* after the page loop: skip the zero-spend insights, then look the day up
\* or, with nothing left, write lastSync
ReconcileFrom(s, insights, i) ==
    LET j == NextPositive(insights, i)
    IN  [s EXCEPT !.insights = insights, !.idx = j, !.existing = None,
                  !.pc = IF j > Len(insights) THEN "finalize" ELSE "find"]

\* one answer of the Insights endpoint: the request rejects (fetch or
\* response.json() throws), or the body is an error payload, or it carries
\* data and, with `next`, a paging.next link
Page(data, next, fail) ==
    [ rejects |-> (fail = "rejects"), error |-> (fail = "error"),
      data |-> data, next |-> next ]

\* what the Insights endpoint answers, page by page: `first` on page 1, `last`
\* on page n, nothing in between; every page but page n links to a next page;
\* page failAt (if any) fails as failKind says
FacebookFeed(first, last, n, failAt, failKind) ==
    [i \in 1..n |->
        Page(IF i = 1 THEN first ELSE IF i = n THEN last ELSE <<>>,
             i < n,
             IF i = failAt THEN failKind ELSE "no")]

\* time_increment=1: one insight per day, in date order
InDateOrder(insights) ==
    \A i \in DOMAIN insights : \A j \in DOMAIN insights : i < j => insights[i].day < insights[j].day

FailKinds == {"error", "rejects"}

FacebookFeeds ==
    { FacebookFeed(data[1], data[2], n, failAt, failKind) :
        data \in { d \in SeqsUpTo(FacebookInsights, 1) \X SeqsUpTo(FacebookInsights, 1) :
                      InDateOrder(d[1] \o d[2]) },
        n \in {1, 2, MaxPages + 1}, failAt \in {0, 1, 2}, failKind \in FailKinds }

\* variant: the loop has no page cap
RECURSIVE PageLoopNoCap(_, _, _, _)
PageLoopNoCap(feed, nextUrl, pageCount, allInsights) ==
    IF ~nextUrl
    THEN [ failed |-> FALSE, thrown |-> FALSE, insights |-> allInsights,
           requests |-> pageCount ]
    ELSE LET data == feed[pageCount + 1]
         IN  IF data.rejects
             THEN [ failed |-> FALSE, thrown |-> TRUE, insights |-> <<>>,
                    requests |-> pageCount + 1 ]
             ELSE IF data.error
             THEN IF pageCount = 0
                  THEN [ failed |-> TRUE, thrown |-> FALSE, insights |-> <<>>,
                         requests |-> pageCount + 1 ]
                  ELSE [ failed |-> FALSE, thrown |-> FALSE, insights |-> allInsights,
                         requests |-> pageCount + 1 ]
             ELSE PageLoopNoCap(feed, data.next, pageCount + 1, allInsights \o data.data)

\* the page loop of syncFacebookHistoricalData: `requests` counts the page
\* requests issued; `thrown` is a rejected request, which leaves the try
\* block; `failed` is the early return on an error payload of the first page
RECURSIVE PageLoop(_, _, _, _)
PageLoop(feed, nextUrl, pageCount, allInsights) ==
    IF ~(nextUrl /\ pageCount < MaxPages)
    THEN [ failed |-> FALSE, thrown |-> FALSE, insights |-> allInsights,
           requests |-> pageCount ]
    ELSE LET data == feed[pageCount + 1]
         IN  IF data.rejects
             THEN [ failed |-> FALSE, thrown |-> TRUE, insights |-> <<>>,
                    requests |-> pageCount + 1 ]
             ELSE IF data.error
             THEN IF pageCount = 0
                  THEN [ failed |-> TRUE, thrown |-> FALSE, insights |-> <<>>,
                         requests |-> pageCount + 1 ]
                  ELSE [ failed |-> FALSE, thrown |-> FALSE, insights |-> allInsights,
                         requests |-> pageCount + 1 ]
             ELSE PageLoop(feed, data.next, pageCount + 1, allInsights \o data.data)

\* what syncFacebookHistoricalData does after the page loop: the catch block
\* returns the failure of a rejected request, the first page's error payload
\* is returned as a failure, anything else is reconciled
FetchOutcome(fetched) ==
    IF fetched.thrown THEN "exception"
    ELSE IF fetched.failed THEN "provider error"
    ELSE "reconcile"

\* the page loop runs against what the provider answers
FacebookFetch(p) ==
    /\ sync[p].pc = "fetch" /\ sync[p].kind = "facebook"
    /\ \E feed \in FacebookFeeds :
         LET s       == [sync[p] EXCEPT !.fetchedWith = sync[p].accessToken]
             fetched == PageLoop(feed, TRUE, 0, <<>>)
             outcome == FetchOutcome(fetched)
         IN  IF outcome = "reconcile"
             THEN sync' = [sync EXCEPT ![p] = ReconcileFrom(s, fetched.insights, 1)]
             ELSE ReturnFailure(p, s, outcome)
    /\ UNCHANGED <<now, tzOffset, adPlatform, marketingCost, integration, nextToken, hist, call>>

\* the rows the findFirst over the insight's day may return: date >= dayStart
\* and date < dayEnd
FacebookFound(ledger, shop, day, off) ==
    LET t        == ParseDate(day)
        dayStart == SetHoursStart(t, off)
        dayEnd   == SetHoursEnd(t, off)
    IN  {r \in RowsOf(ledger, shop, "facebook", dayStart, dayEnd) : r.date < dayEnd}

\* the data of the update of the row found
FacebookUpdate(row, insight, off) ==
    [row EXCEPT !.amount = insight.spend,
                !.date = SetHoursStart(ParseDate(insight.day), off),
                !.description = "Facebook Ads spend for day"]

\* the data of the create
FacebookCreate(shop, insight, off) ==
    NewRow(shop, "facebook", insight.spend, SetHoursStart(ParseDate(insight.day), off),
           "Facebook Ads spend for day")

\* prisma.marketingCost.findFirst over the insight's day
FacebookFind(p) ==
    /\ sync[p].pc = "find"
    /\ LET s        == sync[p]
           found    == FacebookFound(marketingCost, s.shop, s.insights[s.idx].day, tzOffset)
       IN  \E e \in (IF found = {} THEN {None} ELSE {Some(r) : r \in found}) :
             sync' = [sync EXCEPT ![p] = [s EXCEPT !.pc = "write", !.existing = e]]
    /\ UNCHANGED <<now, tzOffset, adPlatform, marketingCost, integration, nextToken, hist, call>>

\* prisma.marketingCost.update of the row found, or create
FacebookWrite(p) ==
    /\ sync[p].pc = "write"
    /\ LET s        == sync[p]
           insight  == s.insights[s.idx]
           next     == ReconcileFrom([s EXCEPT !.storedCount = @ + 1,
                                               !.totalAmount = RAdd(@, insight.spend)],
                                     s.insights, s.idx + 1)
       IN  IF s.existing # None
           THEN IF BagIn(The(s.existing), marketingCost)
                THEN /\ marketingCost' =
                          Updated(The(s.existing),
                                  FacebookUpdate(The(s.existing), insight, tzOffset))
                     /\ sync' = [sync EXCEPT ![p] = next]
                ELSE \* the row was deleted since the lookup: update rejects
                     /\ ReturnFailure(p, s, "exception")
                     /\ UNCHANGED marketingCost
           ELSE /\ BagCardinality(marketingCost) < MaxRows
                /\ marketingCost' = Created(FacebookCreate(s.shop, insight, tzOffset))
                /\ sync' = [sync EXCEPT ![p] = next]
    /\ UNCHANGED <<now, tzOffset, adPlatform, integration, nextToken, hist, call>>

\* variant: Map.set replaces what the date had
DailySpendSetReplaces(acc, date, cost) ==
    IF \E i \in DOMAIN acc : acc[i].day = date
    THEN [i \in DOMAIN acc |->
            IF acc[i].day = date THEN [acc[i] EXCEPT !.spend = cost] ELSE acc[i]]
    ELSE Append(acc, [day |-> date, spend |-> cost])

\* Map.set of the aggregation loop of syncGoogleHistoricalData
DailySpendSet(acc, date, cost) ==
    IF \E i \in DOMAIN acc : acc[i].day = date
    THEN [i \in DOMAIN acc |->
            IF acc[i].day = date THEN [acc[i] EXCEPT !.spend = RAdd(@, cost)] ELSE acc[i]]
    ELSE Append(acc, [day |-> date, spend |-> cost])

\* the aggregation loop: micros to currency units, positive costs summed by date
RECURSIVE DailySpend(_, _)
DailySpend(results, acc) ==
    IF results = <<>> THEN acc
    ELSE LET cost == Q(results[1].costMicros, MicrosPerUnit)
         IN  DailySpend(Tail(results),
                        IF RGt(cost, RZero) THEN DailySpendSet(acc, results[1].date, cost)
                        ELSE acc)

\* the searchStream request fails (not ok, or an error payload)
GoogleFetchError(p) ==
    /\ sync[p].pc = "fetch" /\ sync[p].kind = "google"
    /\ ReturnFailure(p, [sync[p] EXCEPT !.fetchedWith = sync[p].accessToken], "provider error")
    /\ UNCHANGED <<now, tzOffset, adPlatform, marketingCost, integration, nextToken, hist, call>>

\* the searchStream request answers with result rows
GoogleFetch(p) ==
    /\ sync[p].pc = "fetch" /\ sync[p].kind = "google"
    /\ \E results \in SeqsUpTo(GoogleResults, MaxInsights) :
         LET s          == sync[p]
             dailySpend == DailySpend(results, <<>>)
         IN  sync' = [sync EXCEPT ![p] =
                        [s EXCEPT !.fetchedWith = s.accessToken,
                                  !.insights = dailySpend, !.idx = 1,
                                  !.pc = IF dailySpend = <<>> THEN "finalize" ELSE "upsert"]]
    /\ UNCHANGED <<now, tzOffset, adPlatform, marketingCost, integration, nextToken, hist, call>>

\* the rows the upsert's `where` (shop, platform, date) matches
GoogleMatching(ledger, shop, day, off) ==
    LET costDate == SetHoursStart(ParseDate(day), off)
    IN  RowsOf(ledger, shop, "google", costDate, costDate)

\* the data of the upsert's update
GoogleUpdate(row, entry) ==
    [row EXCEPT !.amount = entry.spend, !.description = "Google Ads spend for day"]

\* the data of the upsert's create
GoogleCreate(shop, entry, off) ==
    NewRow(shop, "google", entry.spend, SetHoursStart(ParseDate(entry.day), off),
           "Google Ads spend for day")

\* prisma.marketingCost.upsert keyed by (shop, platform, date)
GoogleUpsert(p) ==
    /\ sync[p].pc = "upsert"
    /\ LET s        == sync[p]
           entry    == s.insights[s.idx]
           matching == GoogleMatching(marketingCost, s.shop, entry.day, tzOffset)
           next     == [s EXCEPT !.storedCount = @ + 1,
                                 !.totalAmount = RAdd(@, entry.spend),
                                 !.idx = @ + 1,
                                 !.pc = IF s.idx + 1 > Len(s.insights)
                                        THEN "finalize" ELSE "upsert"]
       IN  /\ IF matching # {}
              THEN \E m \in matching : marketingCost' = Updated(m, GoogleUpdate(m, entry))
              ELSE /\ BagCardinality(marketingCost) < MaxRows
                   /\ marketingCost' = Created(GoogleCreate(s.shop, entry, tzOffset))
           /\ sync' = [sync EXCEPT ![p] = next]
    /\ UNCHANGED <<now, tzOffset, adPlatform, integration, nextToken, hist, call>>

\* one iteration of a reconciliation loop on a table, with no other writer in
\* between: the tables the lookup and the write may leave
ReconcileOne(kind, ledger, shop, entry, off) ==
    IF kind = "facebook"
    THEN LET found == FacebookFound(ledger, shop, entry.day, off)
         IN  IF ~RGt(entry.spend, RZero) THEN {ledger}
             ELSE IF found = {} THEN {CreatedIn(ledger, FacebookCreate(shop, entry, off))}
             ELSE {UpdatedIn(ledger, r, FacebookUpdate(r, entry, off)) : r \in found}
    ELSE LET matching == GoogleMatching(ledger, shop, entry.day, off)
         IN  IF matching = {} THEN {CreatedIn(ledger, GoogleCreate(shop, entry, off))}
             ELSE {UpdatedIn(ledger, m, GoogleUpdate(m, entry)) : m \in matching}

\* the reconciliation loop from entry i on, run to its end on each of the tables
RECURSIVE ReconcileAll(_, _, _, _, _, _)
ReconcileAll(kind, ledgers, shop, insights, i, off) ==
    IF i > Len(insights) THEN ledgers
    ELSE ReconcileAll(kind,
                      UNION {ReconcileOne(kind, l, shop, insights[i], off) : l \in ledgers},
                      shop, insights, i + 1, off)

\* what a pass reconciled: day -> the last amount it wrote for the day (0: none)
Reported(insights) ==
    [d \in Days |->
        LET hits == {i \in DOMAIN insights : insights[i].day = d /\ RGt(insights[i].spend, RZero)}
        IN  IF hits = {} THEN RZero
            ELSE insights[CHOOSE i \in hits : \A j \in hits : j <= i].spend]

CostPlatform(kind) == kind

\* prisma.integration.update({ lastSync: new Date() }) and the success return
Finalize(p) ==
    /\ sync[p].pc = "finalize"
    /\ LET s == sync[p]
       IN  /\ integration' = [integration EXCEPT ![SyncKey(p)].lastSync = Some(now)]
           /\ hist' = [hist EXCEPT ![<<s.shop, CostPlatform(s.kind)>>] =
                          Some({d \in Days : RGt(Reported(s.insights)[d], RZero)})]
           /\ sync' = [sync EXCEPT ![p] = Returned(s, Success(s.totalAmount))]
    /\ UNCHANGED <<now, tzOffset, adPlatform, marketingCost, nextToken, call>>

(***************************************************************************)
(* The other handlers that write the ledger or the Integration table.      *)
(***************************************************************************)
ForgetPass(shop, platform) ==
    IF <<shop, platform>> \in DOMAIN hist
    THEN hist' = [hist EXCEPT ![<<shop, platform>>] = None]
    ELSE UNCHANGED hist

\* the period end getDateRangeForPeriod(period) hands to syncFacebookAdCosts:
\* 23:59:59.999 UTC of today, or of yesterday for period "yesterday"
SyncNowEndDates == {DayEnd(UTCDay(now)), DayEnd(UTCDay(now) - 1)}

NowFailure(error) == [success |-> FALSE, amount |-> RZero, error |-> error]

NowSuccess(amount) == [success |-> TRUE, amount |-> amount, error |-> Null]

\* syncFacebookAdCosts(shop, startDate, endDate).  `stage` is how far the call
\* got: the integration lookup rejected, or it returned after the checks and
\* before any provider request, or it asked the provider.  With `record` the
\* caller keeps what was returned.
syncFacebookAdCosts(shop, record) ==
    LET k   == <<shop, "facebook_ads">>
        row == integration[k]
        Return(result, stage) ==
            IF record
            THEN call' = [ fn |-> "syncFacebookAdCosts", shop |-> shop, stage |-> stage,
                           result |-> result ]
            ELSE UNCHANGED call
    IN  /\ \/ /\ Return(NowFailure("exception"), "lookup rejected")
              /\ UNCHANGED <<marketingCost, integration, hist>>
           \/ /\ NotConnected(row)
              /\ Return(NowFailure("not connected"), "checked")
              /\ UNCHANGED <<marketingCost, integration, hist>>
           \/ /\ ~NotConnected(row) /\ row.credentials.json # "ok"
              /\ Return(NowFailure("exception"), "checked")
              /\ UNCHANGED <<marketingCost, integration, hist>>
           \/ /\ ~NotConnected(row) /\ row.credentials.json = "ok"
              /\ \E spend \in RangeSpendValues, endDate \in SyncNowEndDates,
                    updateRejects \in BOOLEAN, accountFound \in BOOLEAN :
                   IF row.credentials.selectedAdAccountId = Null /\ ~accountFound
                   THEN /\ Return(NowFailure("No Facebook ad accounts found"), "fetched")
                        /\ UNCHANGED <<marketingCost, integration, hist>>
                   ELSE /\ IF RGt(spend, RZero)
                           THEN /\ BagCardinality(marketingCost) < MaxRows
                                /\ marketingCost' =
                                      Created(NewRow(shop, "facebook", spend, endDate,
                                                     "Facebook Ads spend (range)"))
                                /\ ForgetPass(shop, "facebook")
                           ELSE UNCHANGED <<marketingCost, hist>>
                        /\ IF updateRejects
                           THEN /\ UNCHANGED integration
                                /\ Return(NowFailure("exception"), "fetched")
                           ELSE /\ integration' = [integration EXCEPT ![k].lastSync = Some(now)]
                                /\ Return(NowSuccess(spend), "fetched")
        /\ UNCHANGED <<now, tzOffset, adPlatform, nextToken, sync>>

\* the Sync Now action (app.sync-facebook), whose response the ledger does not keep
SyncNow(shop) == syncFacebookAdCosts(shop, FALSE)

\* costs page action "addMarketingCost"
AddMarketingCost(shop, platform, amount, day) ==
    /\ BagCardinality(marketingCost) < MaxRows
    /\ marketingCost' = Created(NewRow(shop, platform, amount, ParseDate(day), "manual"))
    /\ ForgetPass(shop, platform)
    /\ UNCHANGED <<now, tzOffset, adPlatform, integration, nextToken, sync, call>>

\* costs page action "deleteMarketingCost"
DeleteMarketingCost(row) ==
    /\ BagIn(row, marketingCost)
    /\ marketingCost' = marketingCost (-) SetToBag({row})
    /\ ForgetPass(row.shop, row.platform)
    /\ UNCHANGED <<now, tzOffset, adPlatform, integration, nextToken, sync, call>>

\* facebook-oauth callback: the upsert of the Integration row
FacebookOAuthConnect(shop) ==
    /\ \E selected \in {Null, "act_1"} :
         integration' = [integration EXCEPT ![<<shop, "facebook_ads">>] =
            [ exists |-> TRUE, isActive |-> TRUE, lastSync |-> Some(now),
              credentials |-> [ json |-> "ok", accessToken |-> 0,
                                selectedAdAccountId |-> selected ] ]]
    /\ UNCHANGED <<now, tzOffset, adPlatform, marketingCost, nextToken, sync, hist, call>>

\* app.update-facebook-account action: credentials come from the request body
UpdateFacebookAccount(shop) ==
    /\ integration[<<shop, "facebook_ads">>].exists
    /\ \E credentials \in FacebookCredentials \cup {BadJson, NoCredentials} :
         /\ credentials # integration[<<shop, "facebook_ads">>].credentials
         /\ integration' = [integration EXCEPT ![<<shop, "facebook_ads">>].credentials =
                              credentials]
    /\ UNCHANGED <<now, tzOffset, adPlatform, marketingCost, nextToken, sync, hist, call>>

\* google-oauth callback: the upsert of the Integration row
GoogleOAuthConnect(shop) ==
    /\ nextToken <= MaxToken
    /\ LET k           == <<shop, "google_ads">>
           credentials == [ json |-> "ok", accessToken |-> nextToken, refreshToken |-> "r",
                            expiresAt |-> Some(now + ExpiresIn),
                            selectedCustomerId |-> Null ]
       IN  integration' = [integration EXCEPT ![k] =
              [ exists |-> TRUE, isActive |-> TRUE, lastSync |-> None,
                credentials |-> credentials ]]
    /\ nextToken' = nextToken + 1
    /\ UNCHANGED <<now, tzOffset, adPlatform, marketingCost, sync, hist, call>>

\* time passes
Tick ==
    /\ now < StartOfTime + MaxTicks
    /\ now' = now + 1
    /\ UNCHANGED <<tzOffset, adPlatform, marketingCost, integration, nextToken, sync, hist, call>>

(***************************************************************************)
(* The dashboard loader's background sync (app._index loader).             *)
(***************************************************************************)
OneHour == 1

\* variant: no throttle, every load of a connected shop starts a sync
SyncDueAlways(row, t) ==
    IF ~row.exists THEN FALSE ELSE row.isActive

\* the loader's check on the row findFirst({ ..., isActive: true }) returns
SyncDue(row, t) ==
    IF ~row.exists THEN FALSE
    ELSE IF ~row.isActive THEN FALSE
    ELSE IF row.lastSync = None THEN TRUE
    ELSE The(row.lastSync) < t - OneHour

\* a dashboard load, up to the point where the report is being built: the
\* integration lookup and, when a sync is due, the call of
\* syncFacebookHistoricalData(shop, 3), which is not awaited.  A lookup that
\* rejects sends the loader to its catch block
DashboardLoad(shop) ==
    /\ call = NoCall
    /\ sync[LoaderProc] = Idle
    /\ \E lookup \in {"answered", "rejected"} :
         /\ IF lookup = "answered" /\ SyncDue(integration[<<shop, "facebook_ads">>], now)
            THEN sync' = [sync EXCEPT ![LoaderProc] = FreshSync("facebook", shop)]
            ELSE UNCHANGED sync
         /\ call' = [ fn |-> "dashboard", shop |-> shop, lookup |-> lookup,
                      report |-> FALSE ]
    /\ UNCHANGED <<now, tzOffset, adPlatform, marketingCost, integration, nextToken, hist>>

\* the loader returns its report
DashboardReturn ==
    /\ call.fn = "dashboard" /\ ~call.report
    /\ call' = [call EXCEPT !.report = TRUE]
    /\ UNCHANGED ledgerVars

(***************************************************************************)
(* The specifications.                                                     *)
(***************************************************************************)
\* the server's time zone: UTC, or a third of a day east of UTC
TzOffsets == {0, TicksPerDay \div 3}

Init ==
    /\ now = StartOfTime
    /\ tzOffset \in TzOffsets
    /\ adPlatform \in Kinds
    /\ marketingCost = EmptyBag
    /\ \E seeded \in SUBSET Shops :
         integration = [k \in IntegrationKeys |->
                          IF adPlatform = "google" /\ k[2] = "google_ads" /\ k[1] \in seeded
                          THEN SeededGoogleRow
                          ELSE NoRow]
    /\ nextToken = 1
    /\ sync = [p \in AllProcs |-> Idle]
    /\ hist = [k \in Shops \X Kinds |-> None]
    /\ call = NoCall

SyncStep(p) ==
    \/ LoadIntegration(p)
    \/ RefreshFails(p)
    \/ RefreshSucceeds(p)
    \/ PersistCredentials(p)
    \/ FacebookFetch(p)
    \/ FacebookFind(p)
    \/ FacebookWrite(p)
    \/ GoogleFetchError(p)
    \/ GoogleFetch(p)
    \/ GoogleUpsert(p)
    \/ Finalize(p)
    \/ AwaitRejects(p)

Next ==
    \/ \E p \in Procs, shop \in Shops : StartSync(p, adPlatform, shop)
    \/ \E p \in Procs : SyncStep(p)
    \/ \E shop \in Shops : adPlatform = "facebook" /\ SyncNow(shop)
    \/ \E shop \in Shops, amount \in ManualAmounts, day \in Days :
          AddMarketingCost(shop, adPlatform, amount, day)
    \/ \E row \in BagToSet(marketingCost) : DeleteMarketingCost(row)
    \/ \E shop \in Shops : adPlatform = "facebook" /\ FacebookOAuthConnect(shop)
    \/ \E shop \in Shops : adPlatform = "facebook" /\ UpdateFacebookAccount(shop)
    \/ \E shop \in Shops : adPlatform = "google" /\ GoogleOAuthConnect(shop)
    \/ Tick

Spec == Init /\ [][Next]_vars

(***************************************************************************)
(* SpecRun: the syncs and the dashboard load against one Integration row   *)
(* in any state the table allows (isActive defaults to false, credentials  *)
(* and lastSync are nullable), at one instant.  A behaviour records one    *)
(* dashboard load or one Sync Now call, and one historical sync            *)
(* invocation runs at a time.                                              *)
(***************************************************************************)
LastSyncInputs == {None, Some(StartOfTime - 2), Some(StartOfTime - 1), Some(StartOfTime)}

CredentialInputs(kind) ==
    IF kind = "facebook" THEN FacebookCredentials \cup {BadJson, NoCredentials}
    ELSE [ json : {"ok"}, accessToken : {0}, refreshToken : {"r"},
           expiresAt : {Some(StartOfTime), Some(StartOfTime + 1)},
           selectedCustomerId : {Null, "cust_1"} ] \cup {BadJson, NoCredentials}

RowInputs(kind) ==
    {NoRow} \cup [ exists : {TRUE}, isActive : BOOLEAN, lastSync : LastSyncInputs,
                   credentials : CredentialInputs(kind) ]

InitRun ==
    /\ now = StartOfTime
    /\ tzOffset = 0
    /\ adPlatform \in Kinds
    /\ marketingCost = EmptyBag
    /\ \E row \in RowInputs(adPlatform) :
         integration = [k \in IntegrationKeys |->
                          IF k[2] = IntegrationPlatform(adPlatform) THEN row ELSE NoRow]
    /\ nextToken = 1
    /\ sync = [p \in AllProcs |-> Idle]
    /\ hist = [k \in Shops \X Kinds |-> None]
    /\ call = NoCall

NoneRunning == \A q \in AllProcs : ~Running(q)

NextRun ==
    \/ \E shop \in Shops :
          adPlatform = "facebook" /\ NoneRunning /\ DashboardLoad(shop)
    \/ DashboardReturn
    \/ \E shop \in Shops :
          adPlatform = "facebook" /\ call = NoCall /\ syncFacebookAdCosts(shop, TRUE)
    \/ \E p \in Procs, shop \in Shops : NoneRunning /\ StartSync(p, adPlatform, shop)
    \/ \E p \in AllProcs : SyncStep(p)

SpecRun == InitRun /\ [][NextRun]_vars

(***************************************************************************)
(* SpecRace: two historical sync invocations of one shop and platform, one *)
(* in each slot, against a connected Integration row.  Their steps         *)
(* interleave at every awaited call.  The ledger holds no row of the shop  *)
(* and platform at the start; it may hold a row of another shop or of the  *)
(* other platform, and the other platform may be connected too.  The sync  *)
(* functions call prisma.marketingCost and prisma.integration only, so the *)
(* other tables (FixedCost, ManualCost, Settings, MetricTargets) are not   *)
(* part of the state.                                                      *)
(***************************************************************************)
OtherKind(kind) == IF kind = "facebook" THEN "google" ELSE "facebook"

\* what the ledger holds of other shops and platforms
ForeignLedgers(kind) ==
    { EmptyBag,
      SetToBag({NewRow("s2", kind, R(3), ParseDate(0), "manual")}),
      SetToBag({NewRow("s1", OtherKind(kind), R(3), ParseDate(0), "manual")}) }

ConnectedRows(kind) ==
    IF kind = "facebook"
    THEN { [ exists |-> TRUE, isActive |-> TRUE, lastSync |-> None,
             credentials |-> [ json |-> "ok", accessToken |-> 0,
                               selectedAdAccountId |-> "act_1" ] ] }
    ELSE { [SeededGoogleRow EXCEPT !.credentials.expiresAt = e] :
             e \in {Some(StartOfTime), Some(StartOfTime + 1)} }

InitRace ==
    /\ now = StartOfTime
    /\ tzOffset = 0
    /\ adPlatform \in Kinds
    /\ marketingCost \in ForeignLedgers(adPlatform)
    /\ \E row \in ConnectedRows(adPlatform),
          other \in {NoRow} \cup ConnectedRows(OtherKind(adPlatform)) :
         integration = [k \in IntegrationKeys |->
                          IF k[2] = IntegrationPlatform(adPlatform) THEN row ELSE other]
    /\ nextToken = 1
    /\ sync = [p \in AllProcs |-> Idle]
    /\ hist = [k \in Shops \X Kinds |-> None]
    /\ call = NoCall

NextRace ==
    \/ \E p \in AllProcs, shop \in Shops :
          sync[p] = Idle /\ StartSync(p, adPlatform, shop)
    \/ \E p \in AllProcs : SyncStep(p)

SpecRace == InitRace /\ [][NextRace]_vars

(***************************************************************************)
(* SpecCalc and SpecLoad: calls of the functions defined with the ledger.  *)
(***************************************************************************)
Min(a, b) == IF a <= b THEN a ELSE b

PageCounts == {1, 2, 3, MaxPages, MaxPages + 1}

PageSizes == {0, 1, 30}

\* a feed of n pages of `size` insights each, one insight per day, consecutive days
PagedFeed(n, size, failAt, failKind) ==
    [i \in 1..n |->
        Page([j \in 1..size |-> [day |-> (i - 1) * size + j - 1, spend |-> R(1)]],
             i < n,
             IF i = failAt THEN failKind ELSE "no")]

CallPageLoop ==
    /\ call = NoCall
    /\ \E n \in PageCounts, size \in PageSizes, failAt \in 0..3, failKind \in FailKinds :
         /\ failAt <= n
         /\ LET feed    == PagedFeed(n, size, failAt, failKind)
                fetched == PageLoop(feed, TRUE, 0, <<>>)
            IN  call' = [ fn |-> "pageLoop", feed |-> feed, failAt |-> failAt,
                          failKind |-> failKind, result |-> fetched,
                          outcome |-> FetchOutcome(fetched) ]
    /\ UNCHANGED ledgerVars

\* the days new Date() falls on: month ends of 28, 29, 30 and 31 days, the
\* first of a month, the first of a year, a day in mid-month
CivilDates ==
    { <<2024, 0, 1>>, <<2024, 0, 31>>, <<2024, 1, 29>>, <<2024, 2, 1>>, <<2024, 2, 15>>,
      <<2024, 2, 29>>, <<2024, 2, 30>>, <<2024, 2, 31>>, <<2024, 3, 30>>, <<2024, 4, 31>>,
      <<2024, 11, 31>>, <<2025, 1, 28>>, <<2025, 2, 29>>, <<2025, 2, 31>> }

TodayInputs == { MakeDay(c[1], c[2], c[3]) : c \in CivilDates }

ValueInputs == {R(0), R(450), R(-30), R(1000)}

TargetInputs == {None, Some(R(0)), Some(R(1000)), Some(R(900))}

\* the currentPeriodDays prop of a metric card: what the dashboard passes, or
\* any number another caller passes
CallGetTargetStatus ==
    /\ call = NoCall
    /\ \E value \in ValueInputs, target \in TargetInputs,
          days \in {0, 15} \cup { getCurrentPeriodDays(k, t) : k \in PeriodKeys, t \in TodayInputs } :
         call' = [ fn |-> "getTargetStatus", value |-> value, target |-> target,
                   currentPeriodDays |-> days,
                   result |-> getTargetStatus(value, target, days) ]
    /\ UNCHANGED ledgerVars

CallGetCurrentPeriodDays ==
    /\ call = NoCall
    /\ \E selectedPeriod \in PeriodKeys, today \in TodayInputs :
         call' = [ fn |-> "getCurrentPeriodDays", selectedPeriod |-> selectedPeriod,
                   today |-> today,
                   result |-> getCurrentPeriodDays(selectedPeriod, today) ]
    /\ UNCHANGED ledgerVars

\* time zones of a shop: eight hours behind UTC, UTC, eight hours ahead
ShopTimezones == {-(TicksPerDay \div 3), 0, TicksPerDay \div 3}

\* the instants of a call: the first and the last tick of a UTC day
InstantInputs == { DayStart(d) + h : d \in TodayInputs, h \in {0, TicksPerDay - 1} }

\* callers: the dashboard loader passes the shop's time zone, the Sync Now
\* action passes none and the default "UTC" applies
CallGetDateRangeForPeriod ==
    /\ call = NoCall
    /\ \E period \in PeriodKeys, shopTimezone \in ShopTimezones, t \in InstantInputs,
          caller \in {"loader", "sync-facebook"} :
         LET timezone == IF caller = "loader" THEN shopTimezone ELSE 0
         IN  call' = [ fn |-> "getDateRangeForPeriod", period |-> period,
                       timezone |-> timezone, t |-> t,
                       result |-> getDateRangeForPeriod(period, timezone, t) ]
    /\ UNCHANGED ledgerVars

\* the records of a table: keys and amounts, with their number of copies
KeyAndAmount(r) == [shop |-> r.shop, platform |-> r.platform, date |-> r.date, amount |-> r.amount]

RECURSIVE CopiesOf(_, _, _)
CopiesOf(ledger, rows, q) ==
    IF rows = {} THEN 0
    ELSE LET r == CHOOSE x \in rows : TRUE
         IN  (IF KeyAndAmount(r) = q THEN CopiesIn(r, ledger) ELSE 0)
               + CopiesOf(ledger, rows \ {r}, q)

Records(ledger) ==
    [q \in {KeyAndAmount(r) : r \in BagToSet(ledger)} |-> CopiesOf(ledger, BagToSet(ledger), q)]

\* ledgers a sync may start from: empty, a cost entered on the costs page for
\* day 0, two such costs, and such a cost next to a row dated 23:59:59.999
StartLedgers(kind) ==
    LET manual == NewRow("s1", kind, R(3), ParseDate(0), "manual")
        late   == NewRow("s1", kind, R(5), DayEnd(0), "range")
    IN  { EmptyBag, SetToBag({manual}), SetToBag({manual}) (+) SetToBag({manual}),
          SetToBag({manual, late}) }

\* what the provider reports, the same in both runs: one entry a day, for
\* Google the days with a positive cost only (DailySpend keeps no other)
RetryInsights(kind) ==
    { q \in SeqsUpTo([day : 0..1, spend : {R(0), R(1), R(2)}], 2) :
        /\ InDateOrder(q)
        /\ kind = "google" => \A i \in DOMAIN q : RGt(q[i].spend, RZero) }

\* a historical sync that stops after k iterations of its loop, followed by a
\* sync that runs to completion, next to one sync that runs to completion
CallRetry ==
    /\ call = NoCall
    /\ \E kind \in Kinds, off \in TzOffsets, k \in 0..2 :
       \E ledger \in StartLedgers(kind), insights \in RetryInsights(kind) :
         /\ k <= Len(insights)
         /\ LET interrupted == ReconcileAll(kind, {ledger}, "s1", SubSeq(insights, 1, k), 1, off)
                retried     == ReconcileAll(kind, interrupted, "s1", insights, 1, off)
                single      == ReconcileAll(kind, {ledger}, "s1", insights, 1, off)
            IN  call' = [ fn |-> "retry", kind |-> kind, ledger |-> ledger,
                          insights |-> insights, k |-> k, off |-> off,
                          retried |-> {Records(l) : l \in retried},
                          uninterrupted |-> {Records(l) : l \in single} ]
    /\ UNCHANGED ledgerVars

\* the store loop of syncGoogleHistoricalData over dailySpend.entries(): the
\* upserts it makes, in order, and the counters it keeps
RECURSIVE GoogleStoreLoop(_, _, _)
GoogleStoreLoop(dailySpend, i, acc) ==
    IF i > Len(dailySpend) THEN acc
    ELSE GoogleStoreLoop(dailySpend, i + 1,
            [ upserts     |-> Append(acc.upserts, [day |-> dailySpend[i].day,
                                                   amount |-> dailySpend[i].spend]),
              storedCount |-> acc.storedCount + 1,
              totalAmount |-> RAdd(acc.totalAmount, dailySpend[i].spend) ])

\* result rows of a searchStream response
GoogleRows == [date : 0..1, costMicros : {0, 500000, 1000000}]

\* syncGoogleHistoricalData from the response on: aggregation, then the store loop
CallGoogleReconcile ==
    /\ call = NoCall
    /\ \E results \in SeqsUpTo(GoogleRows, MaxInsights + 1) :
         LET dailySpend == DailySpend(results, <<>>)
             stored     == GoogleStoreLoop(dailySpend, 1,
                              [upserts |-> <<>>, storedCount |-> 0, totalAmount |-> RZero])
         IN  call' = [ fn |-> "googleReconcile", results |-> results,
                       upserts |-> stored.upserts, totalAmount |-> stored.totalAmount ]
    /\ UNCHANGED ledgerVars

\* a historical sync run to completion on an empty ledger, then another one
\* against what the provider reports later; no other writer in between
CallResync ==
    /\ call = NoCall
    /\ \E kind \in Kinds, off \in TzOffsets :
       \E first \in RetryInsights(kind), second \in RetryInsights(kind) :
         LET earlier == ReconcileAll(kind, {EmptyBag}, "s1", first, 1, off)
             later   == ReconcileAll(kind, earlier, "s1", second, 1, off)
         IN  call' = [ fn |-> "resync", kind |-> kind, off |-> off, first |-> first,
                       second |-> second, ledgers |-> later ]
    /\ UNCHANGED ledgerVars

\* the where clause of getMarketingCosts on the date of a row
MarketingCostSelected(date, startDate, endDate, off) ==
    date >= SetHoursStart(startDate, off) /\ date <= SetHoursEnd(endDate, off)

\* the where clause of getManualCosts on the date of a row
ManualCostSelected(date, startDate, endDate) ==
    date >= startDate /\ date <= endDate

\* the ranges of the dashboard loader: the current period in the shop's time
\* zone, periodDays, and the previous period placed before it; setDate moves
\* the start by whole days of the server's (fixed) time zone
LoaderPeriods(period, shopTimezone, t) ==
    LET cur        == getDateRangeForPeriod(period, shopTimezone, t)
        periodDays == CeilDiv(cur.endDate - cur.startDate, TicksPerDay)
    IN  [ startDate         |-> cur.startDate,
          endDate           |-> cur.endDate,
          periodDays        |-> periodDays,
          previousStartDate |-> cur.startDate - periodDays * TicksPerDay,
          previousEndDate   |-> cur.startDate ]

\* a recurring monthly cost of amount daysInMonth, active since before every
\* range of the model and never ended
MonthlyCost(shop) ==
    [ shop |-> shop, amount |-> daysInMonth, recurring |-> TRUE,
      startDate |-> DayStart(0), endDate |-> None ]

\* a dashboard load at instant t: the loader's ranges, what getFixedCosts
\* returns for the current range with one MonthlyCost, and the day count the
\* page computes for the cards, on the same calendar day
CallLoaderPeriods ==
    /\ call = NoCall
    /\ \E period \in PeriodKeys, shopTimezone \in ShopTimezones, t \in InstantInputs,
          off \in TzOffsets :
         LET ranges == LoaderPeriods(period, shopTimezone, t)
         IN  call' = [ fn |-> "loaderPeriods", period |-> period,
                       timezone |-> shopTimezone, t |-> t, off |-> off,
                       ranges |-> ranges,
                       fixedCosts |-> getFixedCosts(<<MonthlyCost("s1")>>, "s1",
                                                    ranges.startDate, ranges.endDate),
                       currentPeriodDays |->
                          getCurrentPeriodDays(period, LocalDay(t, shopTimezone)) ]
    /\ UNCHANGED ledgerVars

\* the sum of the amounts of the rows of one category
RECURSIVE CategorySum(_, _)
CategorySum(costs, category) ==
    IF costs = <<>> THEN RZero
    ELSE RAdd(IF costs[1].category = category THEN costs[1].amount ELSE RZero,
              CategorySum(Tail(costs), category))

\* getManualCosts(shop, startDate, endDate) over the ManualCost table; a row
\* is [shop, category, amount, date]
getManualCosts(table, shop, startDate, endDate) ==
    LET costs == SelectSeq(table, LAMBDA c : /\ c.shop = shop
                                             /\ ManualCostSelected(c.date, startDate, endDate))
    IN  [ shipping |-> CategorySum(costs, "shipping"),
          cogs     |-> CategorySum(costs, "cogs"),
          other    |-> CategorySum(costs, "other") ]

\* the categories the costs page offers for a manual cost
ManualCategories == {"shipping", "cogs", "other"}

ManualRows ==
    [ shop : CalcShops, category : ManualCategories, amount : {R(20)},
      date : {DayStart(5), DayStart(12)} ]

\* the current-period part of the loader's try block over a ManualCost table:
\* getManualCosts, costsData, calculateProfits
LoaderNetProfit(table, shop, startDate, endDate, fee) ==
    LET manualCosts == getManualCosts(table, shop, startDate, endDate)
        cur == [ totalSales |-> R(1000), newCustomerRevenue |-> R(400),
                 returnCustomerRevenue |-> R(600),
                 totalShipping |-> R(50), totalCogs |-> R(200),
                 manualShipping |-> manualCosts.shipping, manualCogs |-> manualCosts.cogs,
                 marketingCosts |-> R(100), fixedCosts |-> R(50) ]
    IN  calculateProfits(PeriodSales(cur), PeriodCosts(cur, TRUE), fee).netProfit

\* a dashboard report over a ManualCost table, and over the table with one
\* more row
CallManualCosts ==
    /\ call = NoCall
    /\ \E table \in SeqsUpTo(ManualRows, 1), row \in ManualRows, range \in RangeInputs,
          fee \in {R(3), R(0)} :
         call' = [ fn |-> "manualCosts", table |-> table, row |-> row,
                   startDate |-> range[1], endDate |-> range[2],
                   without |-> LoaderNetProfit(table, "s1", range[1], range[2], fee),
                   with    |-> LoaderNetProfit(Append(table, row), "s1",
                                               range[1], range[2], fee) ]
    /\ UNCHANGED ledgerVars

NextCalc ==
    \/ CallCalculateProfits
    \/ CallCalculateTrend
    \/ CallGetFixedCosts
    \/ CallLoader
    \/ CallPageLoop
    \/ CallGetTargetStatus
    \/ CallGetCurrentPeriodDays
    \/ CallGetDateRangeForPeriod
    \/ CallRetry

InitCalc ==
    /\ now = StartOfTime
    /\ tzOffset = 0
    /\ adPlatform = "facebook"
    /\ marketingCost = EmptyBag
    /\ integration = [k \in IntegrationKeys |-> NoRow]
    /\ nextToken = 1
    /\ sync = [p \in AllProcs |-> Idle]
    /\ hist = [k \in Shops \X Kinds |-> None]
    /\ call = NoCall

SpecCalc == InitCalc /\ [][NextCalc]_vars

\* the calls on a provider response, on a finished sync and on a dashboard
\* load, each from the state InitCalc
NextLoad ==
    \/ CallGoogleReconcile
    \/ CallResync
    \/ CallLoaderPeriods
    \/ CallManualCosts

SpecLoad == InitCalc /\ [][NextLoad]_vars

(***************************************************************************)
(* Properties of the pure functions, checked under SpecCalc.               *)
(***************************************************************************)
\* C6: calculateProfits returns variableCosts = shippingCosts + cogs +
\* totalSales * transactionFeePercent / 100, grossProfit = totalSales -
\* variableCosts, contributionProfit = grossProfit - marketingCosts and
\* netProfit = contributionProfit - fixedCosts, whatever the transactionFees
\* field of the costs holds; sales 1000, shipping 50, cogs 200, marketing 100,
\* fixed 50, fee 3 gives 280, 720, 620, 570.
C6_ProfitFormulas ==
    call.fn = "calculateProfits" =>
        LET totalSales == call.sales.totalSales
            costs      == call.costs
            result     == call.result
            fees       == RDiv(RMul(totalSales, call.fee), Hundred)
        IN  /\ result.variableCosts = RAdd(RAdd(costs.shippingCosts, costs.cogs), fees)
            /\ result.grossProfit = RSub(totalSales, result.variableCosts)
            /\ result.contributionProfit = RSub(result.grossProfit, costs.marketingCosts)
            /\ result.netProfit = RSub(result.contributionProfit, costs.fixedCosts)
            /\ ( /\ totalSales = R(1000) /\ costs.shippingCosts = R(50) /\ costs.cogs = R(200)
                 /\ costs.marketingCosts = R(100) /\ costs.fixedCosts = R(50)
                 /\ call.fee = R(3) )
               => /\ result.variableCosts = R(280)
                  /\ result.grossProfit = R(720)
                  /\ result.contributionProfit = R(620)
                  /\ result.netProfit = R(570)

\* the example of C6, called with a transactionFees field of 7 that is ignored
C6_Witness ==
    /\ call.fn = "calculateProfits"
    /\ call.sales.totalSales = R(1000)
    /\ call.costs = [ shippingCosts |-> R(50), cogs |-> R(200), transactionFees |-> R(7),
                      marketingCosts |-> R(100), fixedCosts |-> R(50) ]
    /\ call.fee = R(3)
    /\ call.result.variableCosts = R(280)
    /\ call.result.netProfit = R(570)

\* C7: whenever totalSales is 0 every margin is 0: the three margins of
\* calculateProfits, and every margin and distribution of every report the
\* dashboard loader returns, the cost-only fallback report included.
C7_ZeroSalesZeroMargins ==
    /\ (call.fn = "calculateProfits" /\ call.sales.totalSales = RZero) =>
          /\ call.result.grossMargin = RZero
          /\ call.result.contributionMargin = RZero
          /\ call.result.netMargin = RZero
    /\ (call.fn = "loader" /\ call.result.metrics.totalSales = RZero) =>
          \A k \in MetricNames :
             /\ call.result.margins[k] = RZero
             /\ call.result.distributions[k] = RZero

\* C8: calculateTrend(current, previous) is ((current - previous) / previous)
\* * 100 when previous is not 0, and 0 when previous is 0.
C8_Trend ==
    call.fn = "calculateTrend" =>
        /\ call.previous # RZero =>
              call.result = RMul(RDiv(RSub(call.current, call.previous), call.previous), R(100))
        /\ call.previous = RZero => call.result = RZero
        /\ (call.current = R(150) /\ call.previous = R(100)) => call.result = R(50)
        /\ (call.current = R(50) /\ call.previous = R(100)) => call.result = R(-50)

\* 150 against 100 is a trend of 50 percent
C8_Witness ==
    /\ call.fn = "calculateTrend"
    /\ call.current = R(150)
    /\ call.previous = R(100)
    /\ call.result = R(50)

\* a query range of whole days: from 00:00:00.000 of a day to 23:59:59.999 of a day
WholeDays(startDate, endDate) ==
    /\ startDate % TicksPerDay = 0
    /\ endDate % TicksPerDay = TicksPerDay - 1
    /\ startDate <= endDate

\* the number of days of a whole-day range
RangeDays(startDate, endDate) == UTCDay(endDate) - UTCDay(startDate) + 1

\* what C9 says one fixed cost contributes
StatedShare(cost, shop, startDate, endDate) ==
    IF cost.shop # shop THEN RZero
    ELSE IF /\ cost.recurring
            /\ cost.startDate <= endDate
            /\ (cost.endDate = None \/ \E e \in cost.endDate : e >= startDate)
    THEN Q(cost.amount * RangeDays(startDate, endDate), 30)
    ELSE IF ~cost.recurring /\ startDate <= cost.startDate /\ cost.startDate <= endDate
    THEN R(cost.amount)
    ELSE RZero

RECURSIVE StatedTotal(_, _, _, _)
StatedTotal(table, shop, startDate, endDate) ==
    IF table = <<>> THEN RZero
    ELSE RAdd(StatedShare(table[1], shop, startDate, endDate),
              StatedTotal(Tail(table), shop, startDate, endDate))

\* C9: getFixedCosts(shop, start, end) is the sum, over the shop's fixed costs,
\* of amount * rangeDays / 30 for each recurring cost with startDate <= end and
\* (no endDate or endDate >= start), plus the full amount of each non-recurring
\* cost with start <= startDate <= end, and 0 for every other cost; rangeDays
\* is the number of days of the (whole-day) query range.
C9_FixedCosts ==
    (call.fn = "getFixedCosts" /\ WholeDays(call.startDate, call.endDate)) =>
        call.result = StatedTotal(call.table, call.shop, call.startDate, call.endDate)

\* a recurring cost of 300 queried over a ten-day range contributes 100
C9_Witness ==
    /\ call.fn = "getFixedCosts"
    /\ call.shop = "s1"
    /\ call.table = << [ shop |-> "s1", amount |-> 300, recurring |-> TRUE,
                         startDate |-> DayStart(0), endDate |-> None ] >>
    /\ call.startDate = DayStart(0)
    /\ call.endDate = DayEnd(9)
    /\ call.result = R(100)

\* the data of pages 1..k of a feed, concatenated in order
RECURSIVE PagesUpTo(_, _)
PagesUpTo(feed, k) ==
    IF k = 0 THEN <<>> ELSE PagesUpTo(feed, k - 1) \o feed[k].data

\* C11: when the provider serves n pages linked by paging.next and no page
\* fails, the insights handed to the reconciliation are the concatenation, in
\* order, of pages 1..min(n, 20), each insight once, and exactly min(n, 20)
\* page requests are issued: none after the page without paging.next, none
\* after the 20th.
C11_PagesConcatenated ==
    (call.fn = "pageLoop" /\ call.failAt = 0) =>
        LET k        == Min(Len(call.feed), MaxPages)
            insights == call.result.insights
        IN  /\ call.outcome = "reconcile"
            /\ insights = PagesUpTo(call.feed, k)
            /\ \A i \in DOMAIN insights : \A j \in DOMAIN insights :
                  i # j => insights[i] # insights[j]
            /\ call.result.requests = k

\* 3 pages of 30 days: 90 entries after 3 requests
C11_Witness ==
    /\ call.fn = "pageLoop" /\ call.failAt = 0
    /\ Len(call.feed) = 3
    /\ Len(call.result.insights) = 90
    /\ call.result.requests = 3

\* C12: a failing first page request makes the sync return a failure with
\* nothing to reconcile; once a page has succeeded, a later failing page
\* request (error payload or rejected request) or the 20-page cap still leads
\* to the reconciliation of the insights of the pages already fetched.
C12_PartialPagesReconciled ==
    call.fn = "pageLoop" =>
        LET n == Len(call.feed)
        IN  /\ call.failAt = 1 =>
                 call.outcome # "reconcile" /\ call.result.insights = <<>>
            /\ call.failAt > 1 =>
                 /\ call.outcome = "reconcile"
                 /\ call.result.insights = PagesUpTo(call.feed, call.failAt - 1)
            /\ (call.failAt = 0 /\ n > MaxPages) =>
                 /\ call.outcome = "reconcile"
                 /\ call.result.insights = PagesUpTo(call.feed, MaxPages)

DashboardPeriodDaysPositive ==
    call.fn = "getCurrentPeriodDays" => call.result >= 1

C15_MonthRanges ==
    call.fn = "getDateRangeForPeriod" =>
        LET c == CivilOf(LocalDay(call.t, call.timezone))
        IN  /\ call.period = "lastMonth" =>
                 /\ call.result.startDate = DayStart(MakeDay(c.year, c.month - 1, 1))
                 /\ call.result.endDate = DayEnd(MakeDay(c.year, c.month, 1) - 1)
                 /\ call.result.startDate <= call.result.endDate
            /\ call.period = "thisMonth" =>
                 call.result.startDate = DayStart(MakeDay(c.year, c.month, 1))

\* C16: when the try block of the dashboard loader throws (the revenue source
\* fails) the loader returns a report whose totalSales, newCustomerRevenue and
\* returnCustomerRevenue are 0, whose marketingCosts and fixedCosts are the
\* ledger sums of the requested period, whose trends are all 0 and which
\* carries an error; when the ledger reads throw too, it returns the all-zero
\* report with an error.
C16_LoaderFallback ==
    (call.fn = "loader" /\ call.tryFails) =>
        IF ~call.fallbackFails
        THEN /\ call.result.metrics.totalSales = RZero
             /\ call.result.metrics.newCustomerRevenue = RZero
             /\ call.result.metrics.returnCustomerRevenue = RZero
             /\ call.result.metrics.marketingCosts = call.cur.marketingCosts
             /\ call.result.metrics.fixedCosts = call.cur.fixedCosts
             /\ \A k \in MetricNames : call.result.trends[k] = RZero
             /\ call.result.error
        ELSE /\ \A k \in MetricNames :
                  /\ call.result.metrics[k] = RZero
                  /\ call.result.margins[k] = RZero
                  /\ call.result.distributions[k] = RZero
                  /\ call.result.trends[k] = RZero
             /\ call.result.error

\* the revenue source fails for a period with sales and ledger costs
C16_Witness ==
    /\ call.fn = "loader" /\ call.tryFails /\ ~call.fallbackFails
    /\ call.cur.totalSales = R(1000)
    /\ call.cur.marketingCosts = R(100) /\ call.cur.fixedCosts = R(50)
    /\ call.result.metrics.marketingCosts = R(100)
    /\ call.result.metrics.fixedCosts = R(50)
    /\ call.result.metrics.totalSales = RZero

\* C18: when a historical sync is interrupted after any number of completed
\* store writes and a sync of the same (shop, platform) then runs to completion
\* against the same provider data, the MarketingCost records left (keys and
\* amounts) are records a single uninterrupted sync leaves from the same
\* starting ledger.
C18_RetryEqualsSingleRun ==
    call.fn = "retry" => call.retried \subseteq call.uninterrupted

\* C30: for previous # 0, calculateTrend(current, previous) is positive
\* exactly when current > previous and negative exactly when current <
\* previous, also for a negative previous, so that the badge of a metric card
\* points in the direction of the change.
C30_TrendSignIsDirection ==
    (call.fn = "calculateTrend" /\ call.previous # RZero) =>
        /\ RGt(call.result, RZero) <=> RGt(call.current, call.previous)
        /\ RGt(RZero, call.result) <=> RGt(call.previous, call.current)

(***************************************************************************)
(* Properties of the reconciliations and the dashboard load, checked      *)
(* under SpecLoad.                                                        *)
(***************************************************************************)
\* the sum of costMicros / 1,000,000 over the result rows of a date
RECURSIVE CostOfDate(_, _)
CostOfDate(results, d) ==
    IF results = <<>> THEN RZero
    ELSE RAdd(IF results[1].date = d THEN Q(results[1].costMicros, MicrosPerUnit) ELSE RZero,
              CostOfDate(Tail(results), d))

RECURSIVE SumOfAmounts(_)
SumOfAmounts(upserts) ==
    IF upserts = <<>> THEN RZero
    ELSE RAdd(upserts[1].amount, SumOfAmounts(Tail(upserts)))

UpsertsOf(d) == {i \in DOMAIN call.upserts : call.upserts[i].day = d}

DatesOf(results) == {results[i].date : i \in DOMAIN results}

\* C23 as stated: for each distinct date of the provider response exactly one
\* upsert is made, its amount the sum of costMicros / 1,000,000 over the
\* date's rows, and totalAmount is the sum of the amounts upserted.
C23_OneUpsertPerDate ==
    call.fn = "googleReconcile" =>
       /\ \A d \in DatesOf(call.results) :
             /\ Cardinality(UpsertsOf(d)) = 1
             /\ \A i \in UpsertsOf(d) : call.upserts[i].amount = CostOfDate(call.results, d)
       /\ call.totalAmount = SumOfAmounts(call.upserts)

\* C23, amended: the same for each date that has a row with a positive cost;
\* a date whose rows all cost 0 gets no upsert, and no other date gets one.
C23_OneUpsertPerDateWithCost ==
    call.fn = "googleReconcile" =>
       /\ \A d \in DatesOf(call.results) :
             IF RGt(CostOfDate(call.results, d), RZero)
             THEN /\ Cardinality(UpsertsOf(d)) = 1
                  /\ \A i \in UpsertsOf(d) :
                        call.upserts[i].amount = CostOfDate(call.results, d)
             ELSE UpsertsOf(d) = {}
       /\ \A i \in DOMAIN call.upserts : call.upserts[i].day \in DatesOf(call.results)
       /\ call.totalAmount = SumOfAmounts(call.upserts)

\* two rows of one date were summed into one upsert of 1.5, next to a date
\* with a single row
C23_Witness ==
    /\ call.fn = "googleReconcile"
    /\ Len(call.results) = 3
    /\ call.results[1].date = call.results[3].date
    /\ call.results[1].costMicros = 500000
    /\ call.results[3].costMicros = 1000000
    /\ call.results[2].date # call.results[1].date
    /\ call.results[2].costMicros > 0
    /\ Len(call.upserts) = 2
    /\ call.upserts[1].amount = Q(3, 2)
    /\ call.totalAmount = RAdd(Q(3, 2), call.upserts[2].amount)

\* the ledger amount of (shop, platform, day) in a table: the sum over the
\* rows dated on the day, 0 without a row
LedgerAmount(ledger, shop, platform, day, off) ==
    SumOfRows(ledger, {r \in BagToSet(ledger) :
                         /\ r.shop = shop /\ r.platform = platform
                         /\ LocalDay(r.date, off) = LocalDay(ParseDate(day), off)})

\* C26: after a historical sync has returned success, for every day the
\* provider reported in that sync the ledger amount of (shop, platform, day),
\* 0 for a missing record, is the amount reported, whatever an earlier sync
\* stored for the day.
C26_LedgerMatchesProvider ==
    call.fn = "resync" =>
       \A l \in call.ledgers : \A i \in DOMAIN call.second :
          LedgerAmount(l, "s1", CostPlatform(call.kind), call.second[i].day, call.off)
             = call.second[i].spend

\* the dates the costs page gives a record: midnight UTC of the day entered,
\* here the days around the two ranges of the load
CostDates ==
    { DayStart(n) : n \in (UTCDay(call.ranges.previousStartDate) - 1)
                            .. (UTCDay(call.ranges.endDate) + 1) }

\* C27: for every period key the current range and the previous range that
\* the loader passes to getMarketingCosts and getManualCosts select disjoint
\* sets of records: no cost record counts in both totals.
C27_PeriodsDisjoint ==
    call.fn = "loaderPeriods" =>
       LET r == call.ranges
       IN  \A date \in CostDates :
              /\ ~(/\ MarketingCostSelected(date, r.startDate, r.endDate, call.off)
                   /\ MarketingCostSelected(date, r.previousStartDate, r.previousEndDate,
                                            call.off))
              /\ ~(/\ ManualCostSelected(date, r.startDate, r.endDate)
                   /\ ManualCostSelected(date, r.previousStartDate, r.previousEndDate))

\* C28: for each named period the number of days is the same wherever it is
\* used: the day count of the range of getDateRangeForPeriod (the loader's
\* periodDays, the days factor of getFixedCosts) and the dashboard's
\* getCurrentPeriodDays agree, so that a recurring cost of amount A active
\* throughout 'last30days' contributes exactly A.
C28_PeriodDaysAgree ==
    (call.fn = "loaderPeriods" /\ call.period # "custom") =>
       /\ call.ranges.periodDays = call.currentPeriodDays
       /\ call.fixedCosts = R(call.ranges.periodDays)
       /\ call.period = "last30days" => call.fixedCosts = R(daysInMonth)

\* C29: every manual cost record of the shop dated inside the report range
\* lowers the reported netProfit by exactly its amount, whatever its category
\* among those the costs page offers (shipping, cogs, other).
C29_ManualCostLowersNetProfit ==
    (/\ call.fn = "manualCosts"
     /\ call.row.shop = "s1"
     /\ ManualCostSelected(call.row.date, call.startDate, call.endDate)) =>
        call.with = RSub(call.without, call.row.amount)

(***************************************************************************)
(* Properties of the ledger, checked under Spec.                           *)
(***************************************************************************)
\* a step of the running sync invocation p
StepOf(p) == Running(p) /\ sync'[p] # sync[p]

\* how many rows of the table are in the set S of rows
Copies(S) == BagCardinality([r \in S |-> marketingCost[r]])

\* the rows of (shop, platform) dated on the server-local day that `day` parses to
DayRows(shop, platform, day) ==
    {r \in BagToSet(marketingCost) :
        /\ r.shop = shop /\ r.platform = platform
        /\ LocalDay(r.date, tzOffset) = LocalDay(ParseDate(day), tzOffset)}

\* C1: when a completed historical sync pass reconciled a day with amount
\* a1 > 0 and the next completed pass for the shop and platform reconciles
\* the day with a2 > 0, the ledger then holds exactly one record for
\* (shop, platform, day), and its amount is a2.
C1_TwiceLeavesOne ==
    [][ \A p \in AllProcs :
          (sync[p].pc = "finalize" /\ sync'[p].pc = "done" /\ sync'[p].result.success) =>
             \A before \in hist[<<sync[p].shop, CostPlatform(sync[p].kind)>>] :
                \A d \in before :
                   LET a2   == Reported(sync[p].insights)[d]
                       rows == DayRows(sync[p].shop, CostPlatform(sync[p].kind), d)
                   IN  RGt(a2, RZero) =>
                          /\ Copies(rows) = 1
                          /\ \A r \in rows : r.amount = a2 ]_vars

\* C2: for each shop and platform at most one MarketingCost record is dated
\* on a given calendar day, in every reachable state of the ledger.
C2_OneRecordPerDay ==
    \A shop \in Shops, platform \in CostPlatforms, day \in Days :
        Copies(DayRows(shop, platform, day)) <= 1

\* the lastSync of an Integration row (none for a missing row)
LastSyncOf(row) == IF row.exists THEN row.lastSync ELSE None

\* the insights of a pass that are reconciled (spend > 0)
Positives(insights) == {i \in DOMAIN insights : RGt(insights[i].spend, RZero)}

\* C3: a step of a historical sync invocation changes the integration's
\* lastSync only when every cost upsert of the invocation has completed (the
\* step is the final update, followed by the success return); a step that
\* ends the invocation in a failure leaves lastSync as it was.
C3_LastSyncAfterUpserts ==
    [][ \A p \in AllProcs :
          StepOf(p) =>
             /\ LastSyncOf(integration'[SyncKey(p)]) # LastSyncOf(integration[SyncKey(p)]) =>
                   /\ sync[p].pc = "finalize"
                   /\ sync[p].storedCount = Cardinality(Positives(sync[p].insights))
                   /\ sync'[p].pc = "done"
                   /\ sync'[p].result.success
             /\ (sync'[p].pc = "done" /\ ~sync'[p].result.success) =>
                   LastSyncOf(integration'[SyncKey(p)]) = LastSyncOf(integration[SyncKey(p)])
             /\ sync'[p].pc # "done" =>
                   LastSyncOf(integration'[SyncKey(p)]) = LastSyncOf(integration[SyncKey(p)]) ]_vars

\* a Google sync stopped by a rejected store write after its first upsert:
\* lastSync was never written
C3_Witness ==
    \E p \in AllProcs :
        /\ sync[p].pc = "done"
        /\ sync[p].kind = "google"
        /\ ~sync[p].result.success
        /\ sync[p].storedCount = 1
        /\ LastSyncOf(integration[SyncKey(p)]) = None
        /\ BagCardinality(marketingCost) = 1

\* C4: every invocation of a historical sync ends by returning
\* {success: true, totalAmount} or {success: false, totalAmount: 0, error};
\* no failure leaves the function as an exception.
C4_AlwaysReturns ==
    \A p \in AllProcs :
        /\ sync[p].pc # "thrown"
        /\ sync[p].pc = "done" =>
              /\ sync[p].result.returned
              /\ \/ sync[p].result.success /\ sync[p].result.error = Null
                 \/ /\ ~sync[p].result.success
                    /\ sync[p].result.totalAmount = RZero
                    /\ sync[p].result.error # Null
        /\ sync[p].pc \notin {"idle", "done"} => sync[p].result = NoResult

\* a Facebook sync whose store write was rejected after the first day was
\* stored returned a failure
C4_Witness ==
    \E p \in AllProcs :
        /\ sync[p].pc = "done"
        /\ sync[p].kind = "facebook"
        /\ sync[p].result = Failure("exception")
        /\ sync[p].storedCount = 1

\* C5: a Google sync that found the stored expiresAt passed issues a spend
\* fetch only after a successful refresh and never with the stored token; when
\* the refresh fails the sync returns a failure, having fetched nothing,
\* written no cost record and left lastSync unchanged.
C5_NoStaleFetch ==
    [][ \A p \in AllProcs :
          (StepOf(p) /\ sync[p].kind = "google" /\ sync'[p].expired) =>
             /\ sync'[p].fetchedWith # sync[p].fetchedWith =>
                   /\ sync'[p].refreshed = "ok"
                   /\ sync'[p].fetchedWith # None
                   /\ sync'[p].fetchedWith # sync'[p].staleToken
             /\ sync'[p].refreshed = "failed" =>
                   /\ sync'[p].pc = "done"
                   /\ ~sync'[p].result.success
                   /\ sync'[p].fetchedWith = None
                   /\ sync'[p].storedCount = 0
                   /\ marketingCost' = marketingCost
                   /\ integration' = integration ]_vars

\* a Google sync with expired credentials refreshed, fetched with the new
\* token and stored a day
C5_Witness ==
    \E p \in AllProcs :
        /\ sync[p].pc = "finalize"
        /\ sync[p].kind = "google"
        /\ sync[p].expired
        /\ sync[p].refreshed = "ok"
        /\ sync[p].fetchedWith # None
        /\ sync[p].fetchedWith # sync[p].staleToken
        /\ sync[p].storedCount = 1

\* descriptions of the rows the historical syncs write
SyncDescriptions == {"Facebook Ads spend for day", "Google Ads spend for day"}

\* C10: a step of a historical sync that creates or updates a MarketingCost
\* record writes the spend reported for the day it reconciles, which is > 0;
\* every record written by a historical sync has amount > 0.
C10_NoZeroSpendRecord ==
    [][ \A p \in AllProcs :
          (StepOf(p) /\ marketingCost' # marketingCost) =>
             \A r \in BagToSet(marketingCost') :
                CopiesIn(r, marketingCost') > CopiesIn(r, marketingCost) =>
                   /\ RGt(r.amount, RZero)
                   /\ r.amount = sync[p].insights[sync[p].idx].spend
                   /\ r.description \in SyncDescriptions ]_vars

\* a Facebook pass that was handed a zero-spend day and a day with spend
\* stored one day only
C10_Witness ==
    \E p \in AllProcs :
        /\ sync[p].pc = "finalize"
        /\ sync[p].kind = "facebook"
        /\ Len(sync[p].insights) = 2
        /\ \E i \in DOMAIN sync[p].insights : sync[p].insights[i].spend = RZero
        /\ sync[p].storedCount = 1
        /\ Copies({r \in BagToSet(marketingCost) : r.description \in SyncDescriptions}) = 1
        /\ BagCardinality(marketingCost) = 1

\* C19: a non-null Integration.lastSync is the finish time of a sync of that
\* (shop, platform) that returned success: the only steps that set lastSync to
\* a timestamp are the last store call of a historical sync, which then
\* returns success, and a successful syncFacebookAdCosts; the OAuth callbacks,
\* the account selection, a token refresh and a failing sync do not.
C19_LastSyncOnlyBySync ==
    [][ \A k \in IntegrationKeys :
          (/\ LastSyncOf(integration'[k]) # None
           /\ LastSyncOf(integration'[k]) # LastSyncOf(integration[k])) =>
             /\ LastSyncOf(integration'[k]) = Some(now)
             /\ \/ \E p \in AllProcs :
                     /\ sync[p].pc = "finalize" /\ SyncKey(p) = k
                     /\ sync'[p].pc = "done" /\ sync'[p].result.success
                \/ k[2] = "facebook_ads" /\ SyncNow(k[1])
      ]_vars

\* C25: a Sync Now trigger that repeats an earlier one (same shop, same
\* period end, same spend reported) leaves getMarketingCosts of the period as
\* it was after the earlier trigger: the spend is not added again.
C25_SyncNowNotAddedTwice ==
    [][ \A shop \in Shops, r \in BagToSet(marketingCost) :
          (/\ r.shop = shop /\ r.description = "Facebook Ads spend (range)"
           /\ SyncNow(shop)
           /\ marketingCost' = Created(r)) =>
             getMarketingCosts(marketingCost', shop, DayStart(UTCDay(r.date)), r.date, tzOffset)
               = getMarketingCosts(marketingCost, shop, DayStart(UTCDay(r.date)), r.date, tzOffset)
      ]_vars

(***************************************************************************)
(* Properties of the syncs and the dashboard load, checked under SpecRun.  *)
(***************************************************************************)
\* the shop has no Integration row for the platform, or the row is inactive,
\* or its credentials are null
Disconnected(row) ==
    IF ~row.exists THEN TRUE
    ELSE IF ~row.isActive THEN TRUE
    ELSE row.credentials = NoCredentials

\* C17: when the shop has no Integration row for the platform, or the row is
\* inactive, or its credentials are null, a sync whose lookup answers returns
\* success:false with a 'not connected' error before any provider request and
\* writes no cost record and no Integration field; this holds for the two
\* historical syncs and for syncFacebookAdCosts.
C17_NotConnected ==
    [][ /\ \A p \in AllProcs :
             (sync[p].pc = "load" /\ Disconnected(integration[SyncKey(p)])
                /\ LoadIntegration(p)) =>
                /\ sync'[p].pc = "done"
                /\ sync'[p].result = Failure("not connected")
                /\ sync'[p].fetchedWith = None
                /\ UNCHANGED <<marketingCost, integration>>
        /\ (call = NoCall /\ call'.fn = "syncFacebookAdCosts"
              /\ call'.stage # "lookup rejected"
              /\ Disconnected(integration[<<call'.shop, "facebook_ads">>])) =>
                /\ call'.result = NowFailure("not connected")
                /\ call'.stage = "checked"
                /\ UNCHANGED <<marketingCost, integration>>
      ]_vars

\* a historical sync has returned 'not connected' for an inactive row that
\* holds credentials
C17_Witness ==
    \E p \in AllProcs :
        /\ sync[p].pc = "done"
        /\ sync[p].result = Failure("not connected")
        /\ sync[p].fetchedWith = None
        /\ integration[SyncKey(p)].exists
        /\ ~integration[SyncKey(p)].isActive
        /\ integration[SyncKey(p)].credentials.json = "ok"
        /\ marketingCost = EmptyBag

\* C20: on a dashboard load whose integration lookup answers, a background
\* syncFacebookHistoricalData is started if and only if an active
\* facebook_ads Integration row exists and its lastSync is null or earlier
\* than one hour before the load; with a lastSync within the last hour none
\* is started.  The report does not wait for the sync: the loader can return
\* it whatever the sync has done so far, and returning it changes nothing of
\* the sync.
C20_ThrottledBackgroundSync ==
    /\ [][ (call = NoCall /\ call'.fn = "dashboard" /\ call'.lookup = "answered") =>
              LET row == integration[<<call'.shop, "facebook_ads">>]
                  due == IF ~row.exists THEN FALSE
                         ELSE IF ~row.isActive THEN FALSE
                         ELSE IF row.lastSync = None THEN TRUE
                         ELSE \E l \in row.lastSync : l < now - OneHour
              IN  IF due
                  THEN sync' = [sync EXCEPT ![LoaderProc] = FreshSync("facebook", call'.shop)]
                  ELSE sync' = sync
         ]_vars
    /\ [][ (call.fn = "dashboard" /\ call' # call) =>
              /\ ~call.report /\ call'.report
              /\ UNCHANGED ledgerVars
         ]_vars
    /\ [](call.fn = "dashboard" /\ ~call.report => ENABLED DashboardReturn)

\* a load found lastSync older than an hour and started the sync; the report
\* was returned while the sync was still running
C20_Witness ==
    /\ call.fn = "dashboard" /\ call.report
    /\ sync[LoaderProc].pc = "find"
    /\ \E l \in integration[<<call.shop, "facebook_ads">>].lastSync : l < now - OneHour

\* an active row whose credentials parse and name no selected ad account
NoAccountSelected(row) ==
    IF NotConnected(row) THEN FALSE
    ELSE IF row.credentials.json # "ok" THEN FALSE
    ELSE row.credentials.selectedAdAccountId = Null

\* C22: when the Facebook credentials hold no selected ad account, a Facebook
\* sync (syncFacebookHistoricalData and syncFacebookAdCosts) goes on to fetch
\* spend for the first discovered account; it fails for want of an account
\* only when discovery returns none.
C22_FirstAccountPicked ==
    [][ /\ \A p \in AllProcs :
             (sync[p].pc = "load" /\ sync[p].kind = "facebook"
                /\ NoAccountSelected(integration[SyncKey(p)]) /\ LoadIntegration(p)) =>
                \/ sync'[p].pc = "fetch"
                \/ /\ sync'[p].pc = "done"
                   /\ sync'[p].result = Failure("No Facebook ad accounts found")
        /\ (call = NoCall /\ call'.fn = "syncFacebookAdCosts"
              /\ call'.stage # "lookup rejected"
              /\ NoAccountSelected(integration[<<call'.shop, "facebook_ads">>])) =>
                /\ call'.stage = "fetched"
                /\ \/ call'.result.success
                   \/ call'.result = NowFailure("No Facebook ad accounts found")
                   \/ call'.result = NowFailure("exception")
      ]_vars

(***************************************************************************)
(* Properties of two interleaved syncs, checked under SpecRace.            *)
(***************************************************************************)
\* both invocations have completed their reconciliation loops; only the
\* lastSync updates and the returns are left
BothReconciled ==
    \A p \in AllProcs : sync[p].pc = "finalize"

\* C21: when two historical sync invocations of the same shop and platform
\* interleave at their store calls, then once both have finished their writes
\* every day either of them reconciled has exactly one MarketingCost record,
\* and its amount is the amount one of the two wrote for the day; no day ends
\* with two records.
C21_InterleavedSyncsOneRecord ==
    BothReconciled =>
       \A d \in Days :
          LET amounts == {Reported(sync[p].insights)[d] : p \in AllProcs} \ {RZero}
              rows    == DayRows("s1", CostPlatform(adPlatform), d)
          IN  /\ Copies(rows) <= 1
              /\ amounts # {} => /\ Copies(rows) = 1
                                 /\ \A r \in rows : r.amount \in amounts

\* the rows of the table that are not of the given shop and platform, with
\* their numbers of copies
ForeignRows(ledger, shop, platform) ==
    [r \in {x \in BagToSet(ledger) : x.shop # shop \/ x.platform # platform} |-> ledger[r]]

\* how many rows of the table are of the given shop and platform
OwnCount(ledger, shop, platform) ==
    BagCardinality(ledger) - BagCardinality(ForeignRows(ledger, shop, platform))

\* C24: a step of a historical sync of (shop, platform) deletes no record,
\* leaves every MarketingCost record of another shop or platform as it was,
\* and changes no Integration row but its own; what it changes are
\* MarketingCost records of its own shop and platform and its own
\* Integration row.
C24_SyncFrame ==
    [][ \A p \in AllProcs :
          StepOf(p) =>
             LET shop     == sync[p].shop
                 platform == CostPlatform(sync[p].kind)
             IN  /\ ForeignRows(marketingCost', shop, platform)
                       = ForeignRows(marketingCost, shop, platform)
                 /\ OwnCount(marketingCost', shop, platform)
                       >= OwnCount(marketingCost, shop, platform)
                 /\ \A k \in IntegrationKeys :
                       k # SyncKey(p) => integration'[k] = integration[k]
      ]_vars

\* both invocations have returned success, a record of the shop and platform
\* was written, and the row of the other shop or platform that the ledger
\* held on the reconciled day is still there, next to the other platform's
\* Integration row
C24_Witness ==
    /\ \A p \in AllProcs : sync[p].pc = "done" /\ sync[p].result.success
    /\ OwnCount(marketingCost, "s1", CostPlatform(adPlatform)) >= 1
    /\ BagCardinality(ForeignRows(marketingCost, "s1", CostPlatform(adPlatform))) = 1
    /\ \E r \in BagToSet(marketingCost), f \in BagToSet(marketingCost) :
          /\ r.shop = "s1" /\ r.platform = CostPlatform(adPlatform)
          /\ (f.shop # "s1" \/ f.platform # CostPlatform(adPlatform))
          /\ f.date = r.date
    /\ integration[<<"s1", IntegrationPlatform(OtherKind(adPlatform))>>].exists
    /\ integration[<<"s1", IntegrationPlatform(adPlatform)>>].lastSync = Some(now)

====
